---- MODULE Spec2Model ----
(***************************************************************************)
(* Model of the reaction kinetics engine, src/src/kinetics/Kinetics.cpp,   *)
(* together with the parts of its collaborators the engine reads.          *)
(*                                                                         *)
(* Numbers.  Logarithms (ln kf, ln Keq, g/RT, ln(Pref/(RU T))) are held as *)
(* integers.  The exponential is taken in base 2 and its values are held   *)
(* in fixed point, in units of 2^-FracBits, so exp(a - b) * exp(b) and     *)
(* exp(a) can be compared exactly.  Temperatures are counted in ticks of   *)
(* 0.5e-6 K above a base temperature, so the 1.0E-6 tolerance of updateT   *)
(* is TolTicks = 2 ticks.  Species and reaction indices are 0-based as in  *)
(* the source; vectors are sequences and At(v, i) reads element i.         *)
(***************************************************************************)
EXTENDS Integers, Sequences, FiniteSets, TLC

VARIABLES
    m_reactions,    \* vector<Reaction>: the reaction list
    m_num_rxns,     \* number of reactions added
    m_reactants,    \* StoichiometryManager of the reactants
    m_rev_prods,    \* StoichiometryManager of the products of reversible reactions
    m_irr_prods,    \* StoichiometryManager of the products of irreversible reactions
    m_thirdbodies,  \* ThirdbodyManager
    m_jacobian,     \* JacobianManager: the reactions registered, in order
    m_rates,        \* RateManager: one rate law per reaction
    m_dnu,          \* net mole-number change per reaction
    m_lnkf,         \* cached log forward rate coefficients
    m_lnkeq,        \* cached log equilibrium constants
    m_T_last,       \* temperature of the cached coefficients
    mp_g,           \* work array: g/RT of the species
    m_ropf,         \* work array: forward rates of progress
    m_ropb,         \* work array: backward rates of progress
    m_rop,          \* work array: net rates of progress
    doc,            \* the mechanism document handed to the constructor
    pc,             \* position of the constructor in the document
    arrheniusUnits, \* Arrhenius' static units, used when a rate law is parsed
    unitsLog,       \* the calls of Arrhenius::setUnits so far
    species_doc,    \* the species database: the names of its entries, in order
    species_names,  \* the species list handed to loadSpeciesFromList
    m_species,      \* Thermodynamics: the species loaded, by name
    m_has_electrons,   \* Thermodynamics: the electron is among the species
    m_elements,        \* Thermodynamics: the elements the species use
    m_species_indices, \* Thermodynamics: map from species name to index
    m_element_indices, \* Thermodynamics: map from element name to index
    thermoStatus,   \* "new", "loaded" or "aborted" (exit(1))
    table_file,     \* the index column of the file handed to loadTable
    mp_indices,     \* LookupTable: the indices of the rows
    m_is_constant_delta, \* LookupTable: the rows are equally spaced
    index,          \* the index of the last lookup
    lower_row,      \* the rows the last lookup read
    upper_row,
    tableStatus,    \* "none", "loaded", "aborted" (exit(1)) or "undefined"
    thermoState,    \* state of the thermodynamic collaborator (selects g/RT)
    status,         \* "open", "sealed", "aborted" (exit(1)) or "undefined"
    validated,      \* the last closeReactions ran with validate_mechanism
    report,         \* diagnostics written to cerr by the last closeReactions
    ret             \* the last engine call: operation, arguments, returned vector

vars == << m_reactions, m_num_rxns, m_reactants, m_rev_prods, m_irr_prods,
           m_thirdbodies, m_jacobian, m_rates, m_dnu, m_lnkf, m_lnkeq, m_T_last,
           mp_g, m_ropf, m_ropb, m_rop, doc, pc, arrheniusUnits, unitsLog,
           species_doc, species_names, m_species, m_has_electrons, m_elements,
           m_species_indices, m_element_indices, thermoStatus,
           table_file, mp_indices, m_is_constant_delta, index, lower_row,
           upper_row, tableStatus,
           thermoState, status, validated, report, ret >>

mechVars  == << m_reactions, m_num_rxns, m_reactants, m_rev_prods, m_irr_prods,
                m_thirdbodies, m_jacobian, m_rates >>
cacheVars == << m_dnu, m_lnkf, m_lnkeq, m_T_last >>
workVars  == << mp_g, m_ropf, m_ropb, m_rop >>
ctorVars  == << doc, pc, arrheniusUnits, unitsLog >>
loadVars  == << species_doc, species_names, m_species, m_has_electrons, m_elements,
                m_species_indices, m_element_indices, thermoStatus >>
tableVars == << table_file, mp_indices, m_is_constant_delta, index, lower_row,
                upper_row, tableStatus >>
libVars   == << loadVars, tableVars >>

----------------------------------------------------------------------------
(* Bounds of the model.                                                    *)

MaxRxns == 2

----------------------------------------------------------------------------
(* Generic helpers on vectors.                                             *)

At(v, i) == v[i + 1]

InRange(v, i) == i >= 0 /\ i < Len(v)

Abs(x) == IF x < 0 THEN -x ELSE x

RECURSIVE SumSeq(_)
SumSeq(s) == IF s = << >> THEN 0 ELSE Head(s) + SumSeq(Tail(s))

RECURSIVE ProdSeq(_)
ProdSeq(s) == IF s = << >> THEN 1 ELSE Head(s) * ProdSeq(Tail(s))

RECURSIVE Gcd(_, _)
Gcd(a, b) == IF b = 0 THEN a ELSE Gcd(b, a % b)

\* The sequence with the elements of f, held as a tuple of values.
Vec(f) == SubSeq(f, 1, Len(f))

Fill(n, x) == Vec([i \in 1..n |-> x])

Range(s) == {s[i] : i \in 1..Len(s)}

\* Number of occurrences of x in the sequence s (multiset<string>::count).
Count(s, x) == Cardinality({i \in 1..Len(s) : s[i] = x})

----------------------------------------------------------------------------
(* Fixed-point exponential.                                                *)

FracBits == 8

\* exp(x) in units of 2^-FracBits; defined for x >= -FracBits.
Exp(x) == 2 ^ (x + FracBits)

ExpVec(v) == Vec([i \in 1..Len(v) |-> Exp(v[i])])

\* size_t arithmetic: conversion of an int to size_t is taken modulo
\* SizeTModulus.  size_t is 64 bits wide; the modulus is scaled to the
\* integer range of the checker, which keeps the only property used here:
\* -1 converts to SizeTModulus - 1, far above every species count.
SizeTModulus == 2 ^ 30

ToSizeT(i) == i % SizeTModulus

----------------------------------------------------------------------------
(* The thermodynamic-state collaborator (Thermodynamics), as the engine    *)
(* reads it: a mixture of four species over two elements.                  *)

speciesNames == << "A", "B", "C", "D" >>

elementNames == << "X", "Y" >>

nSpecies == Len(speciesNames)

nElements == Len(elementNames)

speciesName(k) == At(speciesNames, k)

elementName(i) == At(elementNames, i)

\* m_species_indices lookup: the index of a species of the mixture, and a
\* negative value for a name that is not in the mixture.
speciesIndex(name) ==
    IF \E k \in 0..(nSpecies - 1) : speciesName(k) = name
    THEN CHOOSE k \in 0..(nSpecies - 1) : speciesName(k) = name
    ELSE -1

\* m_element_matrix(k, i) = m_species[k].nAtoms(m_elements[i].name()):
\* A = X2, B = Y2, C = X2Y, D = Y.
elementMatrix(k, i) == At(At(<< << 2, 0 >>, << 0, 2 >>, << 2, 1 >>, << 0, 1 >> >>, k), i)

atomicMass(i) == At(<< 1, 3 >>, i)

\* m_species_mw(k) = m_species[k].molecularWeight(): the atoms' masses summed.
speciesMw(k) ==
    SumSeq([j \in 1..nElements |-> elementMatrix(k, j - 1) * atomicMass(j - 1)])

\* The collaborator's states (setStateTPX / setStateTPY select one) and the
\* species g/RT the thermodynamic database gives in each.
ThermoStates == 1..2

speciesGOverRT(st) == << << 0, 1, 1, 0 >>, << 1, 0, 0, 1 >> >>[st]

\* std::log(101325.0 / (RU * T)), decreasing in T.
LnPrefOverRT(T) == 1 - T

----------------------------------------------------------------------------
(* Inputs: temperatures (in ticks), concentration vectors, reactions.      *)

Temps == {0, 1, 3}

\* The temperatures of the rate-of-progress and production-rate calls.
RateTemps == {1, 3}

\* A double that is within the tolerance of no temperature of the model
\* (any far-away value, or NaN).
NoTemp == 0 - 100

TolTicks == 2

\* The values an unset double may hold: one that matches no temperature and
\* one that lies within the tolerance of a temperature of the model.
Unset == {NoTemp, 1}

ConcSet == { << 1, 1, 0, 0 >>, << 2, 3, 0, 1 >>, << 1, 0, 2, 1 >> }

\* A value read outside an array's bounds.
Garbage == {0, 1}

\* A rate law: ln k(T) = lnA + slope * T.
RateLaw(lnA, slope) == [lnA |-> lnA, slope |-> slope]

Reaction(formula, reactants, products, reversible, thirdbody, efficiencies, law) ==
    [formula |-> formula, reactants |-> reactants, products |-> products,
     reversible |-> reversible, thirdbody |-> thirdbody,
     efficiencies |-> efficiencies, rateLaw |-> law]

Catalog ==
    { Reaction("A+B=>C+D", << "A", "B" >>, << "C", "D" >>, FALSE, FALSE, << >>,
               RateLaw(1, 0)),
      Reaction("A+B=C+D", << "A", "B" >>, << "C", "D" >>, TRUE, FALSE, << >>,
               RateLaw(0, 1)),
      Reaction("2A+B=>C", << "A", "A", "B" >>, << "C" >>, FALSE, FALSE, << >>,
               RateLaw(1, 1)),
      Reaction("C+M=A+D+M", << "C" >>, << "A", "D" >>, TRUE, TRUE,
               << << "A", 2 >> >>, RateLaw(0, 1)),
      Reaction("B=>2D", << "B" >>, << "D", "D" >>, FALSE, FALSE, << >>,
               RateLaw(1, 1)),
      Reaction("2B=>4D", << "B", "B" >>, << "D", "D", "D", "D" >>, FALSE, FALSE,
               << >>, RateLaw(0, 0)),
      Reaction("A+Z=>C", << "A", "Z" >>, << "C" >>, FALSE, FALSE, << >>,
               RateLaw(1, 0)),
      Reaction("B+M=2D+M", << "B" >>, << "D", "D" >>, TRUE, TRUE,
               << << "Z", 3 >> >>, RateLaw(1, 0)),
      Reaction("A=>A", << "A" >>, << "A" >>, FALSE, FALSE, << >>,
               RateLaw(0, 0)) }

\* The reactions of the mechanisms that are evaluated.
EvalCatalog ==
    { r \in Catalog :
        r.formula \in {"A+B=>C+D", "2A+B=>C", "C+M=A+D+M", "A+Z=>C"} }

\* Reaction::reactant(name), Reaction::product(name): stoichiometric
\* coefficient of a species on either side.
reactant(rxn, name) == Count(rxn.reactants, name)

product(rxn, name) == Count(rxn.products, name)

----------------------------------------------------------------------------
(* Vector<double>: normalize() and operator==.                             *)
(* A component v/|v| of a normalized vector is held exactly as its sign    *)
(* and the reduced fraction v^2/|v|^2; the components of a normalized zero *)
(* vector are 0/0 = NaN (held as sign 0, fraction 0/0), and NaN compares   *)
(* unequal to everything, itself included.                                 *)

NaN == << 0, 0, 0 >>

IsNaN(c) == c[3] = 0

Sign(x) == IF x < 0 THEN -1 ELSE IF x > 0 THEN 1 ELSE 0

normalize(v) ==
    LET sumsq == SumSeq([k \in 1..Len(v) |-> v[k] * v[k]])
    IN  Vec([k \in 1..Len(v) |->
            IF sumsq = 0 THEN NaN
            ELSE LET sq == v[k] * v[k]
                     g  == Gcd(sq, sumsq)
                 IN  << Sign(v[k]), sq \div g, sumsq \div g >>])

VecEq(a, b) ==
    /\ Len(a) = Len(b)
    /\ \A k \in 1..Len(a) : ~ IsNaN(a[k]) /\ ~ IsNaN(b[k]) /\ a[k] = b[k]

----------------------------------------------------------------------------
(* double: an integer below 2^MantissaBits in magnitude is held exactly;   *)
(* a larger one is rounded to MantissaBits significant bits, ties to even. *)

MantissaBits == 26

\* The spacing of the doubles around a magnitude a.
RECURSIVE Ulp(_)
Ulp(a) == IF a < 2 ^ MantissaBits THEN 1 ELSE 2 * Ulp(a \div 2)

\* The double nearest to x.
Fl(x) ==
    LET a   == Abs(x)
        q   == Ulp(a)
        lo  == (a \div q) * q
        rem == a - lo
        up  == rem * 2 > q \/ (rem * 2 = q /\ (a \div q) % 2 = 1)
    IN  Sign(x) * (IF up THEN lo + q ELSE lo)

\* A double so large that adding 1 to it is lost in the rounding.
BigDouble == 2 ^ (MantissaBits + 1)

----------------------------------------------------------------------------
(* StoichiometryManager: a list of entries (reaction index, species        *)
(* indices).  A species index outside the species vector reads the value   *)
(* gv, whatever lies next to the array.                                    *)

Rd(v, i, gv) == IF InRange(v, i) THEN At(v, i) ELSE gv

StoichEntry(rxn, sps) == [rxn |-> rxn, sps |-> sps]

\* StoichiometryManager::addReaction(rxn, sps)
stoichAddReaction(mgr, rxn, sps) == Append(mgr, StoichEntry(rxn, sps))

\* Sum over the entries of reaction j of the species values.
StoichSum(mgr, s, j, gv) ==
    SumSeq([e \in 1..Len(mgr) |->
              IF mgr[e].rxn = j
              THEN SumSeq([k \in 1..Len(mgr[e].sps) |-> Rd(s, mgr[e].sps[k], gv)])
              ELSE 0])

\* Product over the entries of reaction j of the species values.
StoichProd(mgr, s, j, gv) ==
    ProdSeq([e \in 1..Len(mgr) |->
              IF mgr[e].rxn = j
              THEN ProdSeq([k \in 1..Len(mgr[e].sps) |-> Rd(s, mgr[e].sps[k], gv)])
              ELSE 1])

\* Multiplicity of species sp in reaction entry e.
Mult(entry, sp) == Count(entry.sps, sp)

\* Variant of incrReactions that adds only the first species of a reaction.
incrReactions_FirstSpecies(mgr, s, r, gv) ==
    Vec([j \in 1..Len(r) |->
        Fl(r[j] + SumSeq([e \in 1..Len(mgr) |->
                            IF mgr[e].rxn = j - 1 /\ mgr[e].sps # << >>
                            THEN Rd(s, mgr[e].sps[1], gv) ELSE 0]))])

incrReactions(mgr, s, r, gv) ==
    Vec([j \in 1..Len(r) |-> Fl(r[j] + Fl(StoichSum(mgr, s, j - 1, gv)))])

decrReactions(mgr, s, r, gv) ==
    Vec([j \in 1..Len(r) |-> Fl(r[j] - Fl(StoichSum(mgr, s, j - 1, gv)))])

multReactions(mgr, s, r, gv) ==
    Vec([j \in 1..Len(r) |-> r[j] * StoichProd(mgr, s, j - 1, gv)])

\* Sum over the entries of rv[rxn] times the multiplicity of species sp.
SpeciesSum(mgr, rv, sp) ==
    SumSeq([e \in 1..Len(mgr) |-> Mult(mgr[e], sp) * Rd(rv, mgr[e].rxn, 0)])

incrSpecies(mgr, rv, sv) ==
    Vec([k \in 1..Len(sv) |-> Fl(sv[k] + Fl(SpeciesSum(mgr, rv, k - 1)))])

decrSpecies(mgr, rv, sv) ==
    Vec([k \in 1..Len(sv) |-> Fl(sv[k] - Fl(SpeciesSum(mgr, rv, k - 1)))])

\* Some registered species index lies outside [0, nSpecies).
BadIndex(mgr) ==
    \E e \in 1..Len(mgr) : \E k \in 1..Len(mgr[e].sps) :
        ~ (mgr[e].sps[k] >= 0 /\ mgr[e].sps[k] < nSpecies)

----------------------------------------------------------------------------
(* ThirdbodyManager: per third-body reaction the listed (species index,    *)
(* efficiency) pairs; every other species counts with efficiency 1.        *)

ThirdbodyEntry(rxn, effs) == [rxn |-> rxn, effs |-> effs]

\* ThirdbodyManager::addReaction(rxn, effs)
thirdbodyAddReaction(mgr, rxn, effs) == Append(mgr, ThirdbodyEntry(rxn, effs))

\* sum(conc) + sum over the listed species of (eff - 1) * conc[species]
ThirdbodyFactor(entry, s, gv) ==
    SumSeq(s)
    + SumSeq([k \in 1..Len(entry.effs) |->
                (entry.effs[k][2] - 1) * Rd(s, entry.effs[k][1], gv)])

multiplyThirdbodies(mgr, s, r, gv) ==
    Vec([j \in 1..Len(r) |->
        r[j] * ProdSeq([e \in 1..Len(mgr) |->
                          IF mgr[e].rxn = j - 1
                          THEN ThirdbodyFactor(mgr[e], s, gv) ELSE 1])])

BadThirdbodyIndex(mgr) ==
    \E e \in 1..Len(mgr) : \E k \in 1..Len(mgr[e].effs) :
        ~ (mgr[e].effs[k][1] >= 0 /\ mgr[e].effs[k][1] < nSpecies)

----------------------------------------------------------------------------
(* RateManager: one rate law per reaction.                                 *)

RateEntry(rxn, law) == [rxn |-> rxn, law |-> law]

\* RateManager::addRateCoefficient(rxn, law)
addRateCoefficient(mgr, rxn, law) == Append(mgr, RateEntry(rxn, law))

lnRateCoefficient(law, T) == law.lnA + law.slope * T

\* RateManager::lnForwardRateCoefficients(T, lnkf): one entry per rate law.
lnForwardRateCoefficients(mgr, T, lnkf) ==
    Vec([j \in 1..Len(lnkf) |->
        IF \E e \in 1..Len(mgr) : mgr[e].rxn = j - 1
        THEN lnRateCoefficient(
                 mgr[CHOOSE e \in 1..Len(mgr) : mgr[e].rxn = j - 1].law, T)
        ELSE lnkf[j]])

----------------------------------------------------------------------------
(* Kinetics: loading.                                                      *)

\* JacobianManager::addReaction: the manager numbers the reactions itself,
\* in the order in which they are registered.
jacobianAddReaction(m, reaction) == Append(m, reaction)

\* Variant of speciesIndices that converts only the first name.
speciesIndices_FirstOnly(set) ==
    IF set = << >> THEN << >> ELSE << ToSizeT(speciesIndex(set[1])) >>

\* Kinetics::speciesIndices: the int speciesIndex returns is stored in a
\* vector<size_t>.
speciesIndices(set) ==
    Vec([k \in 1..Len(set) |-> ToSizeT(speciesIndex(set[k]))])

\* Variant of thirdbodyEffs that drops the listed efficiencies.
thirdbodyEffs_Defaults(string_effs) == << >>

\* Kinetics::thirdbodyEffs
thirdbodyEffs(string_effs) ==
    Vec([k \in 1..Len(string_effs) |->
        << ToSizeT(speciesIndex(string_effs[k][1])), string_effs[k][2] >>])

Live == status \in {"open", "sealed"}

\* The record of an engine call: the operation, its arguments, the vector
\* it returned and whether the rate manager was invoked.
Call(op, T, conc, val, invoked) ==
    [op |-> op, T |-> T, conc |-> conc, val |-> val, invoked |-> invoked]

NoCall(op) == Call(op, NoTemp, << >>, << >>, FALSE)

\* Variant of addReaction that registers the reactants under index 0.
addReaction_IndexZero(reaction) ==
    /\ Live
    /\ m_reactions' = Append(m_reactions, reaction)
    /\ m_reactants' = stoichAddReaction(m_reactants, 0, speciesIndices(reaction.reactants))
    /\ IF reaction.reversible
       THEN /\ m_rev_prods' = stoichAddReaction(
                    m_rev_prods, m_num_rxns, speciesIndices(reaction.products))
            /\ UNCHANGED m_irr_prods
       ELSE /\ m_irr_prods' = stoichAddReaction(
                    m_irr_prods, m_num_rxns, speciesIndices(reaction.products))
            /\ UNCHANGED m_rev_prods
    /\ IF reaction.thirdbody
       THEN m_thirdbodies' = thirdbodyAddReaction(
                m_thirdbodies, m_num_rxns, thirdbodyEffs(reaction.efficiencies))
       ELSE UNCHANGED m_thirdbodies
    /\ m_rates' = addRateCoefficient(m_rates, m_num_rxns, reaction.rateLaw)
    /\ m_jacobian' = jacobianAddReaction(m_jacobian, reaction)
    /\ m_num_rxns' = m_num_rxns + 1
    /\ ret' = NoCall("addReaction")
    /\ UNCHANGED << cacheVars, workVars, thermoState, status, validated, report >>

\* Kinetics::addReaction
addReaction(reaction) ==
    /\ Live
    /\ m_reactions' = Append(m_reactions, reaction)
    /\ m_reactants' =
           stoichAddReaction(m_reactants, m_num_rxns, speciesIndices(reaction.reactants))
    /\ IF reaction.reversible
       THEN /\ m_rev_prods' = stoichAddReaction(
                    m_rev_prods, m_num_rxns, speciesIndices(reaction.products))
            /\ UNCHANGED m_irr_prods
       ELSE /\ m_irr_prods' = stoichAddReaction(
                    m_irr_prods, m_num_rxns, speciesIndices(reaction.products))
            /\ UNCHANGED m_rev_prods
    /\ IF reaction.thirdbody
       THEN m_thirdbodies' = thirdbodyAddReaction(
                m_thirdbodies, m_num_rxns, thirdbodyEffs(reaction.efficiencies))
       ELSE UNCHANGED m_thirdbodies
    /\ m_rates' = addRateCoefficient(m_rates, m_num_rxns, reaction.rateLaw)
    /\ m_jacobian' = jacobianAddReaction(m_jacobian, reaction)
    /\ m_num_rxns' = m_num_rxns + 1
    /\ ret' = NoCall("addReaction")
    /\ UNCHANGED << cacheVars, workVars, thermoState, status, validated, report >>

----------------------------------------------------------------------------
(* Kinetics: sealing and validation.                                       *)

\* Kinetics::getReactionDelta(s, r) for a reaction vector of length n.
getReactionDelta(s, n, gv) ==
    incrReactions(m_irr_prods, s,
        incrReactions(m_rev_prods, s,
            decrReactions(m_reactants, s, Fill(n, 0), gv), gv), gv)

\* The names closeReactions looks up for one reaction: reactants, products
\* and, for a third-body reaction, the efficiency list.
referencedNames(rxn) ==
    Range(rxn.reactants) \cup Range(rxn.products)
    \cup (IF rxn.thirdbody
          THEN {rxn.efficiencies[k][1] : k \in 1..Len(rxn.efficiencies)}
          ELSE {})

\* Variant of the species-existence check that skips the efficiency lists.
speciesCheck_NoThirdbodies ==
    UNION { { [kind |-> "species", rxn |-> i + 1, name |-> nm] :
                nm \in {x \in Range(At(m_reactions, i).reactants)
                                \cup Range(At(m_reactions, i).products) :
                          speciesIndex(x) < 0} } :
            i \in 0..(m_num_rxns - 1) }

\* The species-existence check: one diagnostic per unresolved name.
speciesCheck ==
    UNION { { [kind |-> "species", rxn |-> i + 1, name |-> nm] :
                nm \in {x \in referencedNames(At(m_reactions, i)) :
                          speciesIndex(x) < 0} } :
            i \in 0..(m_num_rxns - 1) }

\* stoichi / stoichj of the duplicate check, before normalization.
stoich(i) ==
    Vec([k \in 1..nSpecies |->
        product(At(m_reactions, i), speciesName(k - 1))
        - reactant(At(m_reactions, i), speciesName(k - 1))])

\* Variant of the duplicate check that compares the vectors as they are,
\* without normalizing them.
duplicateCheck_Unnormalized ==
    { [kind |-> "duplicate", rxn |-> p[1] + 1, other |-> p[2] + 1] :
        p \in { q \in (0..(m_num_rxns - 2)) \X (0..(m_num_rxns - 1)) :
                  q[2] >= q[1] + 1 /\ stoich(q[1]) = stoich(q[2])
                  /\ \E k \in 1..nSpecies : stoich(q[1])[k] # 0 } }

\* The duplicate check: i runs below m_num_rxns - 1, j from i + 1, and the
\* normalized vectors of each pair are compared with operator==.
duplicateCheck ==
    LET unit == [i \in 0..(m_num_rxns - 1) |-> normalize(stoich(i))]
    IN  { [kind |-> "duplicate", rxn |-> p[1] + 1, other |-> p[2] + 1] :
            p \in { q \in (0..(m_num_rxns - 2)) \X (0..(m_num_rxns - 1)) :
                      q[2] >= q[1] + 1 /\ VecEq(unit[q[1]], unit[q[2]]) } }

\* Variant of the conservation check that reports positive residuals only.
conservationCheck_PositiveOnly(gv) ==
    UNION { LET mass == getReactionDelta(
                            Vec([k \in 1..nSpecies |-> elementMatrix(k - 1, i)]),
                            m_num_rxns, gv)
            IN  { [kind |-> "conservation", rxn |-> j + 1, element |-> elementName(i)] :
                    j \in {x \in 0..(m_num_rxns - 1) : At(mass, x) > 0} } :
            i \in 0..(nElements - 1) }

\* The conservation check: per element i, the reaction delta of column i of
\* the element matrix; every reaction with a non-zero entry is reported.
conservationCheck(gv) ==
    UNION { LET mass == getReactionDelta(
                            Vec([k \in 1..nSpecies |-> elementMatrix(k - 1, i)]),
                            m_num_rxns, gv)
            IN  { [kind |-> "conservation", rxn |-> j + 1, element |-> elementName(i)] :
                    j \in {x \in 0..(m_num_rxns - 1) : At(mass, x) # 0} } :
            i \in 0..(nElements - 1) }

\* The bound of the duplicate check's outer loop, m_num_rxns - 1 in size_t.
duplicateLoopBound == ToSizeT(m_num_rxns - 1)

\* The outer loop reads m_reactions[i] for every i below its bound: some i
\* is not an index of the reaction list.
duplicateCheckReadsOutOfBounds == duplicateLoopBound > Len(m_reactions)

\* Variant of validation that stops at the first check that finds a problem.
validationReport_FirstFailure(gv) ==
    IF speciesCheck # {} THEN speciesCheck
    ELSE IF duplicateCheck # {} THEN duplicateCheck
    ELSE conservationCheck(gv)

\* Everything validation reports.
validationReport(gv) == speciesCheck \cup duplicateCheck \cup conservationCheck(gv)

\* getReactionDelta reads a species vector outside its bounds.
BadStoichIndex ==
    BadIndex(m_reactants) \/ BadIndex(m_rev_prods) \/ BadIndex(m_irr_prods)

\* The tail of closeReactions: dnu and the work arrays.
seal(gv) ==
    /\ m_dnu' = getReactionDelta(Fill(nSpecies, 1), m_num_rxns, gv)
    /\ m_lnkf' = Fill(m_num_rxns, 0)
    /\ m_lnkeq' = Fill(m_num_rxns, 0)
    /\ mp_g' = Fill(nSpecies, 0)
    /\ m_ropf' = Fill(m_num_rxns, 0)
    /\ m_ropb' = Fill(m_num_rxns, 0)
    /\ m_rop' = Fill(m_num_rxns, 0)
    /\ status' = "sealed"

\* Undefined behaviour with no defined continuation.
undefinedBehaviour ==
    /\ status' = "undefined"
    /\ UNCHANGED << mechVars, cacheVars, workVars, thermoState, validated, report, ret >>

\* Kinetics::closeReactions(validate_mechanism)
closeReactions(validate_mechanism) ==
    /\ Live
    /\ \/ /\ validate_mechanism
          /\ ~ duplicateCheckReadsOutOfBounds
          /\ \E gv \in (IF BadStoichIndex THEN Garbage ELSE {0}) :
               LET problems == validationReport(gv)
               IN  /\ report' = problems
                   /\ validated' = TRUE
                   /\ IF problems # {}
                      THEN /\ status' = "aborted"
                           /\ UNCHANGED << m_dnu, m_lnkf, m_lnkeq, workVars >>
                      ELSE seal(gv)
                   /\ ret' = NoCall("closeReactions")
                   /\ UNCHANGED << mechVars, m_T_last, thermoState >>
       \/ /\ ~ validate_mechanism
          /\ \E gv \in Garbage :
               /\ seal(gv)
               /\ report' = {}
               /\ validated' = FALSE
               /\ ret' = NoCall("closeReactions")
               /\ UNCHANGED << mechVars, m_T_last, thermoState >>
       \/ \* m_num_rxns - 1 wraps around for an empty mechanism and the
          \* duplicate check reads m_reactions[0]; an unresolved species index
          \* makes getReactionDelta read outside the species vector.
          /\ \/ validate_mechanism /\ duplicateCheckReadsOutOfBounds
             \/ BadStoichIndex
          /\ undefinedBehaviour

----------------------------------------------------------------------------
(* Kinetics: the cached rate state and the evaluation pipeline.            *)
(* The operators thread the cache (lnkf, lnkeq, T_last) through the calls  *)
(* as the methods do; `invoked` records whether the rate manager ran.      *)

Cache ==
    [lnkf |-> m_lnkf, lnkeq |-> m_lnkeq, T_last |-> m_T_last, invoked |-> FALSE,
     g |-> mp_g, ropf |-> m_ropf, ropb |-> m_ropb, rop |-> m_rop]

Near(T, T_last) == Abs(T - T_last) < TolTicks

\* Variant of updateT that skips the update only when T equals T_last.
updateT_ExactMatch(c, T, gv) ==
    IF T = c.T_last THEN c
    ELSE [lnkf    |-> lnForwardRateCoefficients(m_rates, T, c.lnkf),
          lnkeq   |-> decrReactions(m_irr_prods, speciesGOverRT(thermoState),
                          decrReactions(m_rev_prods, speciesGOverRT(thermoState),
                              incrReactions(m_reactants, speciesGOverRT(thermoState),
                                  Vec([j \in 1..Len(m_dnu) |-> m_dnu[j] * LnPrefOverRT(T)]),
                                  gv), gv), gv),
          T_last  |-> T,
          invoked |-> TRUE,
          g       |-> speciesGOverRT(thermoState),
          ropf    |-> c.ropf,
          ropb    |-> c.ropb,
          rop     |-> c.rop]


\* Variant of updateT that recomputes without recording the temperature.
updateT_KeepsTLast(c, T, gv) ==
    IF Near(T, c.T_last) THEN c
    ELSE LET g == speciesGOverRT(thermoState)
         IN  [lnkf    |-> lnForwardRateCoefficients(m_rates, T, c.lnkf),
              lnkeq   |-> decrReactions(m_irr_prods, g,
                              decrReactions(m_rev_prods, g,
                                  incrReactions(m_reactants, g,
                                      Vec([j \in 1..Len(m_dnu) |-> m_dnu[j] * LnPrefOverRT(T)]),
                                      gv), gv), gv),
              T_last  |-> c.T_last,
              invoked |-> TRUE,
              g       |-> g,
              ropf    |-> c.ropf,
              ropb    |-> c.ropb,
              rop     |-> c.rop]

\* Variant of updateT that adds the g/RT of the reversible products.
updateT_ProductsAdded(c, T, gv) ==
    IF Near(T, c.T_last) THEN c
    ELSE LET g == speciesGOverRT(thermoState)
         IN  [lnkf    |-> lnForwardRateCoefficients(m_rates, T, c.lnkf),
              lnkeq   |-> decrReactions(m_irr_prods, g,
                              incrReactions(m_rev_prods, g,
                                  incrReactions(m_reactants, g,
                                      Vec([j \in 1..Len(m_dnu) |-> m_dnu[j] * LnPrefOverRT(T)]),
                                      gv), gv), gv),
              T_last  |-> T,
              invoked |-> TRUE,
              g       |-> g,
              ropf    |-> c.ropf,
              ropb    |-> c.ropb,
              rop     |-> c.rop]

\* Kinetics::updateT
updateT(c, T, gv) ==
    IF Near(T, c.T_last) THEN c
    ELSE LET g == speciesGOverRT(thermoState)
         IN  [lnkf    |-> lnForwardRateCoefficients(m_rates, T, c.lnkf),
              lnkeq   |-> decrReactions(m_irr_prods, g,
                              decrReactions(m_rev_prods, g,
                                  incrReactions(m_reactants, g,
                                      Vec([j \in 1..Len(m_dnu) |-> m_dnu[j] * LnPrefOverRT(T)]),
                                      gv), gv), gv),
              T_last  |-> T,
              invoked |-> TRUE,
              g       |-> g,
              ropf    |-> c.ropf,
              ropb    |-> c.ropb,
              rop     |-> c.rop]

Result(c, val) == [cache |-> c, val |-> val]

\* Kinetics::equilibriumConstants
equilibriumConstants(c, T, gv) ==
    LET u == updateT(c, T, gv) IN Result(u, ExpVec(u.lnkeq))

\* Kinetics::forwardRateCoefficients
forwardRateCoefficients(c, T, gv) ==
    LET u == updateT(c, T, gv) IN Result(u, ExpVec(u.lnkf))

\* Variant of backwardRateCoefficients that adds the logarithms.
backwardRateCoefficients_Sum(c, T, gv) ==
    LET u == updateT(c, T, gv)
    IN  Result(u, ExpVec(Vec([j \in 1..Len(u.lnkf) |-> u.lnkf[j] + u.lnkeq[j]])))

\* Kinetics::backwardRateCoefficients
backwardRateCoefficients(c, T, gv) ==
    LET u == updateT(c, T, gv)
    IN  Result(u, ExpVec(Vec([j \in 1..Len(u.lnkf) |-> u.lnkf[j] - u.lnkeq[j]])))

\* Variant of forwardRatesOfProgress without the third-body factor.
forwardRatesOfProgress_NoThirdbodies(c, T, conc, gv) ==
    LET kf == forwardRateCoefficients(c, T, gv)
    IN  Result(kf.cache, multReactions(m_reactants, conc, kf.val, gv))

\* Kinetics::forwardRatesOfProgress
forwardRatesOfProgress(c, T, conc, gv) ==
    LET kf == forwardRateCoefficients(c, T, gv)
    IN  Result(kf.cache,
               multiplyThirdbodies(m_thirdbodies, conc,
                   multReactions(m_reactants, conc, kf.val, gv), gv))

\* Kinetics::backwardRatesOfProgress
backwardRatesOfProgress(c, T, conc, gv) ==
    LET kb == backwardRateCoefficients(c, T, gv)
    IN  Result(kb.cache,
               multiplyThirdbodies(m_thirdbodies, conc,
                   multReactions(m_rev_prods, conc, kb.val, gv), gv))

\* Variant of netRatesOfProgress that also stores the net rates in m_rop.
netRatesOfProgress_StoresRop(c, T, conc, gv) ==
    LET kf   == forwardRateCoefficients(c, T, gv)
        ropf == multReactions(m_reactants, conc, kf.val, gv)
        kb   == backwardRateCoefficients(kf.cache, T, gv)
        ropb == multReactions(m_rev_prods, conc, kb.val, gv)
        rop  == multiplyThirdbodies(m_thirdbodies, conc,
                    Vec([j \in 1..Len(ropf) |-> ropf[j] - ropb[j]]), gv)
    IN  Result([kb.cache EXCEPT !.ropf = ropf, !.ropb = ropb, !.rop = rop], rop)

\* Kinetics::netRatesOfProgress
netRatesOfProgress(c, T, conc, gv) ==
    LET kf   == forwardRateCoefficients(c, T, gv)
        ropf == multReactions(m_reactants, conc, kf.val, gv)
        kb   == backwardRateCoefficients(kf.cache, T, gv)
        ropb == multReactions(m_rev_prods, conc, kb.val, gv)
    IN  Result([kb.cache EXCEPT !.ropf = ropf, !.ropb = ropb],
               multiplyThirdbodies(m_thirdbodies, conc,
                   Vec([j \in 1..Len(ropf) |-> ropf[j] - ropb[j]]), gv))

\* Variant of netProductionRates that leaves the rates on a mole basis.
netProductionRates_MoleBasis(c, T, conc, gv) ==
    LET rop == netRatesOfProgress(c, T, conc, gv)
    IN  Result([rop.cache EXCEPT !.rop = rop.val],
               incrSpecies(m_irr_prods, rop.val,
                   incrSpecies(m_rev_prods, rop.val,
                       decrSpecies(m_reactants, rop.val, Fill(nSpecies, 0)))))

\* Variant of netProductionRates that does not reset the buffer: a caller
\* that hands in the buffer of its previous call gets the sum of both.
netProductionRates_Accumulating(c, T, conc, gv) ==
    LET rop  == netRatesOfProgress(c, T, conc, gv)
        buf  == IF ret.op = "wdot" /\ Len(ret.val) = nSpecies
                THEN ret.val ELSE Fill(nSpecies, 0)
        wdot == incrSpecies(m_irr_prods, rop.val,
                    incrSpecies(m_rev_prods, rop.val,
                        decrSpecies(m_reactants, rop.val, buf)))
    IN  Result([rop.cache EXCEPT !.rop = rop.val],
               Vec([k \in 1..nSpecies |-> wdot[k] * speciesMw(k - 1)]))

\* Kinetics::netProductionRates
netProductionRates(c, T, conc, gv) ==
    LET rop  == netRatesOfProgress(c, T, conc, gv)
        wdot == incrSpecies(m_irr_prods, rop.val,
                    incrSpecies(m_rev_prods, rop.val,
                        decrSpecies(m_reactants, rop.val, Fill(nSpecies, 0))))
    IN  Result([rop.cache EXCEPT !.rop = rop.val],
               Vec([k \in 1..nSpecies |-> wdot[k] * speciesMw(k - 1)]))

\* Kinetics::jacobianRho: the value is the pair of coefficient arrays p_kf,
\* p_kb handed to JacobianManager::computeJacobian together with conc.
jacobianRho(c, T, conc, gv) ==
    LET u == updateT(c, T, gv)
    IN  Result(u, << ExpVec(u.lnkf),
                     ExpVec(Vec([j \in 1..Len(u.lnkf) |-> u.lnkf[j] - u.lnkeq[j]])) >>)

----------------------------------------------------------------------------
(* Kinetics: the public operations as actions.                             *)

\* The cache vectors were sized for fewer reactions than are registered.
Stale == Len(m_lnkf) # m_num_rxns

\* The operation writes outside an array: the managers write one entry per
\* registered reaction into vectors of the cache's length, and decrSpecies /
\* incrSpecies write wdot at every registered species index.
WritesOutOfBounds(op, T) ==
    \/ Stale /\ (op \in {"ropf", "ropb", "rop", "wdot"} \/ ~ Near(T, m_T_last))
    \/ op = "wdot" /\ BadStoichIndex

\* The operation reads a species vector (g, conc) outside its bounds.
ReadsOutOfBounds(op, T) ==
    \/ ~ Near(T, m_T_last) /\ BadStoichIndex
    \/ op \in {"ropf", "rop", "wdot"} /\ BadIndex(m_reactants)
    \/ op \in {"ropb", "rop", "wdot"} /\ BadIndex(m_rev_prods)
    \/ op \in {"ropf", "ropb", "rop", "wdot"} /\ BadThirdbodyIndex(m_thirdbodies)
    \/ op = "jac" /\ Stale

\* The state after a call that returned r.
commit(op, T, conc, r) ==
    /\ m_lnkf' = r.cache.lnkf
    /\ m_lnkeq' = r.cache.lnkeq
    /\ m_T_last' = r.cache.T_last
    /\ mp_g' = r.cache.g
    /\ m_ropf' = r.cache.ropf
    /\ m_ropb' = r.cache.ropb
    /\ m_rop' = r.cache.rop
    /\ ret' = Call(op, T, conc, r.val, r.cache.invoked)
    /\ UNCHANGED << mechVars, m_dnu, thermoState, status, validated, report >>

evaluate(op, c, T, conc, gv) ==
    CASE op = "updateT" -> Result(updateT(c, T, gv), << >>)
      [] op = "keq"     -> equilibriumConstants(c, T, gv)
      [] op = "kf"      -> forwardRateCoefficients(c, T, gv)
      [] op = "kb"      -> backwardRateCoefficients(c, T, gv)
      [] op = "ropf"    -> forwardRatesOfProgress(c, T, conc, gv)
      [] op = "ropb"    -> backwardRatesOfProgress(c, T, conc, gv)
      [] op = "rop"     -> netRatesOfProgress(c, T, conc, gv)
      [] op = "wdot"    -> netProductionRates(c, T, conc, gv)
      [] op = "jac"     -> jacobianRho(c, T, conc, gv)

\* One call of an evaluation method on a sealed engine.
Evaluate(op, T, conc) ==
    /\ status = "sealed"
    /\ \/ /\ ~ WritesOutOfBounds(op, T)
          /\ \E gv \in (IF ReadsOutOfBounds(op, T) THEN Garbage ELSE {0}) :
                commit(op, T, conc, evaluate(op, Cache, T, conc, gv))
       \/ /\ WritesOutOfBounds(op, T) \/ ReadsOutOfBounds(op, T)
          /\ undefinedBehaviour
    /\ UNCHANGED << ctorVars, libVars >>

UpdateT == \E T \in Temps : Evaluate("updateT", T, << >>)

EquilibriumConstants == \E T \in Temps : Evaluate("keq", T, << >>)

ForwardRateCoefficients == \E T \in Temps : Evaluate("kf", T, << >>)

BackwardRateCoefficients == \E T \in Temps : Evaluate("kb", T, << >>)

ForwardRatesOfProgress == \E T \in RateTemps, conc \in ConcSet : Evaluate("ropf", T, conc)

BackwardRatesOfProgress == \E T \in RateTemps, conc \in ConcSet : Evaluate("ropb", T, conc)

NetRatesOfProgress == \E T \in RateTemps, conc \in ConcSet : Evaluate("rop", T, conc)

NetProductionRates == \E T \in RateTemps, conc \in ConcSet : Evaluate("wdot", T, conc)

JacobianRho == \E T \in RateTemps, conc \in ConcSet : Evaluate("jac", T, conc)

\* The methods of the evaluation API.
EvaluationOps == {"keq", "kf", "kb", "ropf", "ropb", "rop", "wdot", "jac"}

\* Any method of the evaluation API at one concentration vector.
AnyEvaluation ==
    \E op \in EvaluationOps, T \in RateTemps :
        Evaluate(op, T, IF op \in {"keq", "kf", "kb"} THEN << >> ELSE << 2, 3, 0, 1 >>)

\* addReaction and closeReactions called in any order on a live engine.
AddReaction ==
    /\ m_num_rxns < MaxRxns
    /\ \E reaction \in Catalog : addReaction(reaction)
    /\ UNCHANGED << ctorVars, libVars >>

CloseReactions ==
    /\ \E validate_mechanism \in BOOLEAN : closeReactions(validate_mechanism)
    /\ UNCHANGED << ctorVars, libVars >>

\* The lifecycle of an engine that is evaluated: reactions are added to the
\* open engine and one closeReactions seals it.
LoadReaction ==
    /\ status = "open"
    /\ m_num_rxns < MaxRxns
    /\ \E reaction \in EvalCatalog : addReaction(reaction)
    /\ UNCHANGED << ctorVars, libVars >>

Seal ==
    /\ status = "open"
    /\ \E validate_mechanism \in BOOLEAN : closeReactions(validate_mechanism)
    /\ UNCHANGED << ctorVars, libVars >>

\* Thermodynamics::setStateTPX / setStateTPY on the collaborator.
SetState ==
    /\ Live
    /\ \E st \in ThermoStates : st # thermoState /\ thermoState' = st
    /\ UNCHANGED << mechVars, cacheVars, workVars, ctorVars, libVars, status, validated, report, ret >>

----------------------------------------------------------------------------
(* The stoichiometry managers used on their own: a caller applies          *)
(* decrReactions and then incrReactions with the same species vector, or   *)
(* decrSpecies and then incrSpecies with the same reaction vector.         *)

Managers == {"m_reactants", "m_rev_prods", "m_irr_prods"}

Manager(name) ==
    CASE name = "m_reactants" -> m_reactants
      [] name = "m_rev_prods" -> m_rev_prods
      [] name = "m_irr_prods" -> m_irr_prods

\* The entries of the vectors handed to a manager.
Doubles == {0, 1, BigDouble}

SpeciesVecs == { << 1, 1, 1, 1 >>, << 2, 0, 1, 1 >>, << BigDouble, 1, 0, 1 >> }

\* The record of a round trip through manager mgr: the vector read (src),
\* the vector updated (arg) and what it holds afterwards (val).
StoichCall(op, mgr, src, arg, val) ==
    [op |-> op, T |-> NoTemp, conc |-> << >>, val |-> val, invoked |-> FALSE,
     mgr |-> mgr, src |-> src, arg |-> arg]

DecrIncrReactions ==
    /\ Live
    /\ m_num_rxns >= 1
    /\ \E mgr \in Managers, s \in SpeciesVecs, x \in Doubles :
          /\ ~ BadIndex(Manager(mgr))
          /\ LET r == Fill(m_num_rxns, x)
             IN  ret' = StoichCall("decrIncrReactions", mgr, s, r,
                            incrReactions(Manager(mgr), s,
                                decrReactions(Manager(mgr), s, r, 0), 0))
    /\ UNCHANGED << mechVars, cacheVars, workVars, ctorVars, libVars, thermoState, status,
                    validated, report >>

DecrIncrSpecies ==
    /\ Live
    /\ m_num_rxns >= 1
    /\ \E mgr \in Managers, sv \in SpeciesVecs, x \in Doubles :
          /\ ~ BadIndex(Manager(mgr))
          /\ LET rv == Fill(m_num_rxns, x)
             IN  ret' = StoichCall("decrIncrSpecies", mgr, rv, sv,
                            incrSpecies(Manager(mgr), rv,
                                decrSpecies(Manager(mgr), rv, sv)))
    /\ UNCHANGED << mechVars, cacheVars, workVars, ctorVars, libVars, thermoState, status,
                    validated, report >>

----------------------------------------------------------------------------
(* Thermodynamics::loadSpeciesFromList: the species of the mixture are     *)
(* pulled out of the species database in database order.                   *)

MaxRequest == 3

\* The element database, in file order; an element is known by its position.
ElementDb == << "e-", "N", "O" >>

\* Species(XmlElement, elements, used_elements): the positions of the
\* elements the species is made of are added to used_elements.
ElementsOf(name) ==
    CASE name = "e-" -> {0}
      [] name = "N2" -> {1}
      [] name = "N+" -> {0, 1}
      [] name = "O2" -> {2}
      [] OTHER -> {}

\* Species databases: the electron in the middle, the electron first, and
\* one that lists a name twice.
SpeciesDbs ==
    { << "N2", "e-", "N+" >>, << "e-", "O2", "N2", "N+" >>, << "N2", "N+", "N2", "e-" >> }

\* The names a species list may hold; "Ar" is in no database.
RequestNames == { "N2", "N+", "e-", "Ar" }

Requests == UNION { [1..n -> RequestNames] : n \in 0..MaxRequest }

\* std::swap(m_species[0], m_species.back())
swapFrontBack(v) == [v EXCEPT ![1] = v[Len(v)], ![Len(v)] = v[1]]

\* Variant of storeSpecies that leaves the electron where it was pushed.
storeSpecies_NoSwap(species, name) == Append(species, name)

\* The species is pushed back; the electron is then swapped to the front.
storeSpecies(species, name) ==
    LET pushed == Append(species, name)
    IN  IF name = "e-" /\ Len(pushed) > 1 THEN swapFrontBack(pushed) ELSE pushed

\* The loop over the database from entry i on: st holds the species stored
\* so far, the names still to find, the electron flag and the used elements.
RECURSIVE loadLoop(_, _, _)
loadLoop(db, i, st) ==
    IF i > Len(db) THEN st
    ELSE IF db[i] \notin st.species_set THEN loadLoop(db, i + 1, st)
    ELSE LET found ==
                 [species       |-> storeSpecies(st.species, db[i]),
                  species_set   |-> st.species_set \ {db[i]},
                  has_electrons |-> st.has_electrons \/ db[i] = "e-",
                  used_elements |-> st.used_elements \cup ElementsOf(db[i])]
         IN  IF found.species_set = {} THEN found ELSE loadLoop(db, i + 1, found)

\* The elements of a set<int> in iteration order.
RECURSIVE Ascending(_)
Ascending(set) ==
    IF set = {} THEN << >>
    ELSE LET least == CHOOSE x \in set : \A y \in set : x <= y
         IN  << least >> \o Ascending(set \ {least})

\* The map filled by map[v[i].name()] = i for i = 0, 1, ...: a later
\* assignment to the same name replaces the earlier one.
indexMap(v) ==
    [nm \in Range(v) |->
        (CHOOSE i \in 1..Len(v) : v[i] = nm /\ \A j \in 1..Len(v) : v[j] = nm => j <= i) - 1]

\* Thermodynamics::loadSpeciesFromList(species_names), called once by the
\* constructor.
loadSpeciesFromList ==
    /\ thermoStatus = "new"
    /\ LET st == loadLoop(species_doc, 1,
                          [species       |-> m_species,
                           species_set   |-> Range(species_names),
                           has_electrons |-> m_has_electrons,
                           used_elements |-> {}])
       IN  /\ m_species' = st.species
           /\ m_has_electrons' = st.has_electrons
           /\ IF st.species_set # {}
              THEN /\ thermoStatus' = "aborted"
                   /\ UNCHANGED << m_elements, m_element_indices, m_species_indices >>
              ELSE /\ m_elements' =
                          LET used == Ascending(st.used_elements)
                          IN  Vec([k \in 1..Len(used) |-> At(ElementDb, used[k])])
                   /\ m_element_indices' = indexMap(m_elements')
                   /\ m_species_indices' = indexMap(m_species')
                   /\ thermoStatus' = "loaded"
    /\ UNCHANGED << species_doc, species_names >>

\* Thermodynamics::speciesIndex on the loaded map.
loadedSpeciesIndex(name) ==
    IF name \in DOMAIN m_species_indices THEN m_species_indices[name] ELSE 0 - 1

\* The collaborator of the engine: the mixture of the reactions' species.
ThermoLoaded ==
    /\ species_doc = speciesNames
    /\ species_names = speciesNames
    /\ m_species = speciesNames
    /\ m_has_electrons = FALSE
    /\ m_elements = elementNames
    /\ m_species_indices = indexMap(speciesNames)
    /\ m_element_indices = indexMap(elementNames)
    /\ thermoStatus = "loaded"

\* Thermodynamics at the entry of its constructor's body.
ThermoNew ==
    /\ species_doc \in SpeciesDbs
    /\ species_names \in Requests
    /\ m_species = << >>
    /\ m_has_electrons = FALSE
    /\ m_elements = << >>
    /\ m_species_indices = << >>
    /\ m_element_indices = << >>
    /\ thermoStatus = "new"

----------------------------------------------------------------------------
(* LookupTable: the index column, its loading from a file and the search   *)
(* for the two rows that bound a lookup index.                             *)

MaxRows == 3

\* The values an index of a file may take.
IndexValues == 0..4

TableFiles == UNION { [1..n -> IndexValues] : n \in 2..MaxRows }

\* The indices looked up: below, between and above the indices of a table.
LookupIndices == (0 - 1)..5

\* No lookup was made yet.
NoIndex == 0 - 100

\* 1 / 1.0e-6, the relative tolerance of the spacing test.
DeltaTolInv == 1000000

m_num_indices == Len(mp_indices)

minIndex == mp_indices[1]

maxIndex == mp_indices[m_num_indices]

\* The rows of the file that are <= their predecessor.
unorderedRows(file) == { i \in 2..Len(file) : file[i] <= file[i - 1] }

\* The spacing test of loadTable, accumulated over the rows i > 1:
\* |(x[i] - x[i-1]) - (x[i-1] - x[i-2])| < 1.0e-6 * x[i-2].
constantDelta(file) ==
    \A i \in 3..Len(file) :
        Abs((file[i] - file[i - 1]) - (file[i - 1] - file[i - 2])) * DeltaTolInv
            < file[i - 2]

\* LookupTable::loadTable: initialize zero-fills the table, the rows are
\* read in order, and the first row that is not above its predecessor
\* ends the program.
loadTable ==
    /\ tableStatus = "none"
    /\ IF unorderedRows(table_file) = {}
       THEN /\ mp_indices' = table_file
            /\ m_is_constant_delta' = constantDelta(table_file)
            /\ tableStatus' = "loaded"
       ELSE LET bad == CHOOSE i \in unorderedRows(table_file) :
                          \A j \in unorderedRows(table_file) : i <= j
            IN  /\ mp_indices' = Vec([k \in 1..Len(table_file) |->
                                        IF k <= bad THEN table_file[k] ELSE 0])
                /\ m_is_constant_delta' = constantDelta(SubSeq(table_file, 1, bad))
                /\ tableStatus' = "aborted"
    /\ UNCHANGED << table_file, index, lower_row, upper_row >>

\* std::lower_bound(mp_indices, mp_indices + m_num_indices, x) - mp_indices
lower_bound(v, x) ==
    IF \E k \in 1..Len(v) : v[k] >= x
    THEN (CHOOSE k \in 1..Len(v) : v[k] >= x /\ \A j \in 1..(k - 1) : v[j] < x) - 1
    ELSE Len(v)

\* The search of LookupTable::lookup: the pair (lower_row, upper_row), both
\* unsigned.
boundingRows(x) ==
    IF x > minIndex
    THEN IF m_is_constant_delta
         THEN LET hash == ToSizeT((x - minIndex) \div (mp_indices[2] - mp_indices[1]))
                  lower == IF hash >= m_num_indices - 1 THEN m_num_indices - 2 ELSE hash
              IN  << lower, lower + 1 >>
         ELSE LET upper == lower_bound(mp_indices, x)
              IN  << ToSizeT(upper - 1), upper >>
    ELSE << 0, 1 >>

\* LookupTable::lookup(index, p_values, scheme): the rows are found and
\* mp_indices and mp_data are read at both; a row that is not in the table
\* makes that an out-of-bounds read.
lookup(x) ==
    /\ tableStatus = "loaded"
    /\ index' = x
    /\ lower_row' = boundingRows(x)[1]
    /\ upper_row' = boundingRows(x)[2]
    /\ tableStatus' = IF /\ InRange(mp_indices, boundingRows(x)[1])
                         /\ InRange(mp_indices, boundingRows(x)[2])
                      THEN "loaded" ELSE "undefined"
    /\ UNCHANGED << table_file, mp_indices, m_is_constant_delta >>

\* No table was built.
NoTable ==
    /\ table_file = << >>
    /\ mp_indices = << >>
    /\ m_is_constant_delta = FALSE
    /\ index = NoIndex
    /\ lower_row = 0
    /\ upper_row = 1
    /\ tableStatus = "none"

\* LookupTable(file_name) at the entry of loadTable.
TableNew ==
    /\ table_file \in TableFiles
    /\ mp_indices = << >>
    /\ m_is_constant_delta = FALSE
    /\ index = NoIndex
    /\ lower_row = 0
    /\ upper_row = 1
    /\ tableStatus = "none"

----------------------------------------------------------------------------
(* The mechanism document and the constructor that reads it.               *)

\* Arrhenius' units before any arrhenius_units element was read.
DefaultUnits == 0

MaxElems == 3

ReactionElement(rxn) == [tag |-> "reaction", rxn |-> rxn]

UnitsElement(u) == [tag |-> "arrhenius_units", units |-> u]

Elements ==
    { ReactionElement(r) : r \in {x \in Catalog : x.formula \in {"A+B=>C+D", "C+M=A+D+M"}} }
    \cup { UnitsElement(1), UnitsElement(2) }
    \cup { [tag |-> "comment"] }

Document(root, elements) == [root |-> root, elements |-> elements]

\* The mechanism name "none": there is no document.
NoDocument == Document("none", << >>)

Docs ==
    { Document(root, elements) :
        root \in {"mechanism", "species"},
        elements \in UNION { [1..n -> Elements] : n \in 0..MaxElems } }

\* Reaction(XmlElement): the rate law is parsed with the units Arrhenius
\* holds at that moment.
ParseReaction(element, units) ==
    [element.rxn EXCEPT !.rateLaw = RateLaw(@.lnA + units, @.slope)]

\* The constructor has returned or has called exit(1).
Returned == 0 - 1

\* The members after the constructor's initializer list: no reactions and
\* empty vectors; the list leaves m_T_last unset.
Constructed ==
    /\ m_reactions = << >>
    /\ m_num_rxns = 0
    /\ m_reactants = << >>
    /\ m_rev_prods = << >>
    /\ m_irr_prods = << >>
    /\ m_thirdbodies = << >>
    /\ m_jacobian = << >>
    /\ m_rates = << >>
    /\ m_dnu = << >>
    /\ m_lnkf = << >>
    /\ m_lnkeq = << >>
    /\ m_T_last \in Unset
    /\ mp_g = << >>
    /\ m_ropf = << >>
    /\ m_ropb = << >>
    /\ m_rop = << >>
    /\ arrheniusUnits = DefaultUnits
    /\ unitsLog = << >>
    /\ thermoState = 1
    /\ status = "open"
    /\ validated = FALSE
    /\ report = {}
    /\ ret = NoCall("Kinetics")

\* The engine after Kinetics(thermo, "none").
Init ==
    /\ Constructed
    /\ doc = NoDocument
    /\ pc = Returned
    /\ ThermoLoaded
    /\ NoTable

\* The collaborator at the entry of its constructor's body.
InitSpecies ==
    /\ Constructed
    /\ doc = NoDocument
    /\ pc = Returned
    /\ ThermoNew
    /\ NoTable

\* A lookup table about to be loaded from a file.
InitTable ==
    /\ Constructed
    /\ doc = NoDocument
    /\ pc = Returned
    /\ ThermoLoaded
    /\ TableNew

\* Kinetics(thermo, mechanism) at the entry of its body.
InitMechanism ==
    /\ Constructed
    /\ doc \in Docs \cup {NoDocument}
    /\ pc = 0
    /\ ThermoLoaded
    /\ NoTable

ctorFrame == UNCHANGED << mechVars, cacheVars, workVars, thermoState, validated, report, ret >>

\* The constructor touches neither the collaborator's species nor a table.
ctorOnly == UNCHANGED libVars

\* The mechanism name is "none": the constructor returns at once.
CtorNone ==
    /\ ctorOnly
    /\ pc = 0
    /\ doc = NoDocument
    /\ pc' = Returned
    /\ ctorFrame
    /\ UNCHANGED << status, doc, arrheniusUnits, unitsLog >>

\* The root of the document is checked.
CtorRoot ==
    /\ ctorOnly
    /\ pc = 0
    /\ doc # NoDocument
    /\ IF doc.root # "mechanism"
       THEN status' = "aborted" /\ pc' = Returned
       ELSE pc' = 1 /\ UNCHANGED status
    /\ ctorFrame
    /\ UNCHANGED << doc, arrheniusUnits, unitsLog >>

\* One element of the document is read.
CtorElement ==
    /\ ctorOnly
    /\ pc \in 1..Len(doc.elements)
    /\ Live
    /\ LET element == doc.elements[pc]
       IN  CASE element.tag = "reaction" ->
                  /\ addReaction(ParseReaction(element, arrheniusUnits))
                  /\ UNCHANGED << arrheniusUnits, unitsLog >>
             [] element.tag = "arrhenius_units" ->
                  /\ arrheniusUnits' = element.units
                  /\ unitsLog' = Append(unitsLog,
                                        [units |-> element.units, at |-> m_num_rxns])
                  /\ ctorFrame
                  /\ UNCHANGED status
             [] OTHER ->
                  /\ ctorFrame
                  /\ UNCHANGED << status, arrheniusUnits, unitsLog >>
    /\ pc' = pc + 1
    /\ UNCHANGED doc

\* The mechanism is closed and the constructor returns.
CtorClose ==
    /\ ctorOnly
    /\ pc = Len(doc.elements) + 1
    /\ closeReactions(TRUE)
    /\ pc' = Returned
    /\ UNCHANGED << doc, arrheniusUnits, unitsLog >>

\* The engine's own state.
engineVars == << mechVars, cacheVars, workVars, ctorVars, thermoState, status,
                 validated, report, ret >>

LoadSpeciesFromList ==
    /\ loadSpeciesFromList
    /\ UNCHANGED << engineVars, tableVars >>

LoadTable ==
    /\ loadTable
    /\ UNCHANGED << engineVars, loadVars >>

Lookup ==
    /\ \E x \in LookupIndices : lookup(x)
    /\ UNCHANGED << engineVars, loadVars >>

\* The collaborator's constructor loading its species.
NextSpecies == LoadSpeciesFromList

SpecSpecies == InitSpecies /\ [][NextSpecies]_vars

\* A table is loaded and looked up.
NextTable == LoadTable \/ Lookup

SpecTable == InitTable /\ [][NextTable]_vars

\* Kinetics::Kinetics with a mechanism document.
NextMechanism == CtorNone \/ CtorRoot \/ CtorElement \/ CtorClose

SpecMechanism == InitMechanism /\ [][NextMechanism]_vars

\* An engine that is loaded, sealed and asked for its coefficients.
Next ==
    \/ LoadReaction
    \/ Seal
    \/ UpdateT
    \/ EquilibriumConstants
    \/ ForwardRateCoefficients
    \/ BackwardRateCoefficients

Spec == Init /\ [][Next]_vars

\* An engine that is loaded, sealed and asked for its forward and backward
\* rates of progress (which call the coefficient methods themselves).
NextProgress ==
    \/ LoadReaction
    \/ Seal
    \/ ForwardRatesOfProgress
    \/ BackwardRatesOfProgress

SpecProgress == Init /\ [][NextProgress]_vars

\* An engine that is loaded, sealed and asked for its net rates of progress
\* and its production rates.
NextNet ==
    \/ LoadReaction
    \/ Seal
    \/ NetRatesOfProgress
    \/ NetProductionRates

SpecNet == Init /\ [][NextNet]_vars

\* An engine that is loaded with resolved reactions, sealed and driven
\* through its whole evaluation API.
LoadResolvedReaction ==
    /\ status = "open"
    /\ m_num_rxns < MaxRxns
    /\ \E reaction \in {r \in EvalCatalog : r.formula \in {"2A+B=>C", "C+M=A+D+M"}} :
          addReaction(reaction)
    /\ UNCHANGED << ctorVars, libVars >>

NextFrame == LoadResolvedReaction \/ Seal \/ AnyEvaluation

SpecFrame == Init /\ [][NextFrame]_vars

\* The coefficient calls with the collaborator's state changing in between.
NextThermo == Next \/ SetState

SpecThermo == Init /\ [][NextThermo]_vars

\* Loading and sealing alone, over the whole catalog.
NextLoad == AddReaction \/ CloseReactions

SpecLoad == Init /\ [][NextLoad]_vars

\* The managers of a loaded engine driven through their round trips.
NextStoich == LoadReaction \/ DecrIncrReactions \/ DecrIncrSpecies

SpecStoich == Init /\ [][NextStoich]_vars

----------------------------------------------------------------------------
(* Vocabulary of the properties, stated on the reaction records and the    *)
(* mixture rather than on the managers.                                    *)

CoefficientOps == {"updateT", "keq", "kf", "kb"}

Sealed == status = "sealed"

\* closeReactions(true) has just returned or has just called exit(1).
JustValidated ==
    /\ ret.op = "closeReactions"
    /\ validated
    /\ status \in {"sealed", "aborted"}

InMixture(name) == \E k \in 1..nSpecies : speciesNames[k] = name

\* Product count minus reactant count of every species of the mixture.
NetStoich(rxn) ==
    [k \in 1..nSpecies |-> product(rxn, speciesNames[k]) - reactant(rxn, speciesNames[k])]

\* v and w have the same unit vector: neither is zero and w is a positive
\* multiple of v.
SameUnitVector(v, w) ==
    /\ \E k \in 1..nSpecies : v[k] # 0
    /\ \E k \in 1..nSpecies : w[k] # 0
    /\ \A k, l \in 1..nSpecies : v[k] * w[l] = v[l] * w[k]
    /\ SumSeq([k \in 1..nSpecies |-> v[k] * w[k]]) > 0

\* Residual of element e (1-based) over reaction rxn.
Residual(rxn, e) ==
    SumSeq([k \in 1..nSpecies |-> NetStoich(rxn)[k] * elementMatrix(k - 1, e - 1)])

----------------------------------------------------------------------------
(* C1: on a sealed engine a call of updateT(T), made directly or through   *)
(* a coefficient method, with |T - T_last| < 1e-6 changes neither T_last   *)
(* nor the cached log forward rate coefficients nor the cached log         *)
(* equilibrium constants, and does not invoke the rate manager.            *)

C1_Step ==
    (/\ Sealed
     /\ status' = "sealed"
     /\ ret' # ret
     /\ ret'.op \in CoefficientOps
     /\ Near(ret'.T, m_T_last))
    => (/\ m_T_last' = m_T_last
        /\ m_lnkf' = m_lnkf
        /\ m_lnkeq' = m_lnkeq
        /\ ~ ret'.invoked)

C1_UpdateTNoOpWithinTolerance == [][C1_Step]_vars

\* A call at a temperature near to, and different from, the temperature of
\* a filled cache returned without an update.
C1_Witness ==
    /\ Sealed
    /\ ret.op \in CoefficientOps
    /\ ~ ret.invoked
    /\ ret.T # m_T_last
    /\ Near(ret.T, m_T_last)
    /\ \E j \in 1..Len(m_lnkf) :
          m_lnkf[j] # 0 /\ At(m_reactions, j - 1).rateLaw.slope # 0

----------------------------------------------------------------------------
(* C2: for a sealed mechanism of the one irreversible reaction             *)
(* A + B -> C + D without third body, netProductionRates(T, conc) returns  *)
(* -kf [A][B] Mw(s) for the reactants s = A, B and +kf [A][B] Mw(s) for    *)
(* the products s = C, D: no backward term contributes.                    *)

IsIrreversibleABtoCD(rxn) ==
    /\ rxn.reactants = << "A", "B" >>
    /\ rxn.products = << "C", "D" >>
    /\ ~ rxn.reversible
    /\ ~ rxn.thirdbody

C2_IrreversibleNetIsForward ==
    (/\ Sealed
     /\ ret.op = "wdot"
     /\ m_num_rxns = 1
     /\ Len(m_lnkf) = 1
     /\ IsIrreversibleABtoCD(m_reactions[1]))
    => LET q == Exp(m_lnkf[1]) * ret.conc[1] * ret.conc[2]
       IN  ret.val = << (0 - q) * speciesMw(0), (0 - q) * speciesMw(1),
                        q * speciesMw(2), q * speciesMw(3) >>

----------------------------------------------------------------------------
(* C3: closeReactions(true) fails the load whenever two reactions i < j    *)
(* have the same unit net-stoichiometry vector, and the report names both  *)
(* reactions of every such pair.                                           *)

----------------------------------------------------------------------------
(* C4: closeReactions(true) completes without aborting only if every       *)
(* reaction conserves every element exactly: the sum over the species of   *)
(* (product coefficient - reactant coefficient) * atom count is zero.      *)

C4_SealedOnlyIfConserving ==
    (JustValidated /\ status = "sealed")
    => \A r \in 1..m_num_rxns : \A e \in 1..nElements :
           Residual(m_reactions[r], e) = 0

\* A validated mechanism of two distinct, conserving reactions was sealed.
C4_Witness ==
    /\ JustValidated
    /\ status = "sealed"
    /\ m_num_rxns >= 2
    /\ \E k \in 1..nSpecies : NetStoich(m_reactions[1])[k] # 0

----------------------------------------------------------------------------
(* C5: closeReactions(true) fails the load if a species name among the     *)
(* reactants, the products or, for a third-body reaction, the efficiency   *)
(* list of any reaction is not a species of the mixture, and reports it;   *)
(* a mechanism that passes has every such name resolved.                   *)

Unresolved(rxn) ==
    { rxn.reactants[k] : k \in {x \in 1..Len(rxn.reactants) : ~ InMixture(rxn.reactants[x])} }
    \cup
    { rxn.products[k] : k \in {x \in 1..Len(rxn.products) : ~ InMixture(rxn.products[x])} }
    \cup
    { rxn.efficiencies[k][1] :
        k \in {x \in 1..Len(rxn.efficiencies) :
                 rxn.thirdbody /\ ~ InMixture(rxn.efficiencies[x][1])} }

C5_UnresolvedSpeciesAbort ==
    JustValidated =>
        \A r \in 1..m_num_rxns : \A nm \in Unresolved(m_reactions[r]) :
            /\ status = "aborted"
            /\ [kind |-> "species", rxn |-> r, name |-> nm] \in report

\* The only problem of the mechanism was a name in an efficiency list.
C5_Witness ==
    /\ JustValidated
    /\ status = "aborted"
    /\ m_num_rxns = 1
    /\ m_reactions[1].thirdbody
    /\ report = { [kind |-> "species", rxn |-> 1, name |-> "Z"] }

----------------------------------------------------------------------------
(* C6: validation never stops at the first problem. When closeReactions    *)
(* validates, the species, duplicate and conservation checks all run over  *)
(* the whole mechanism, every problem they find is in the report, and the  *)
(* one abort decision is taken after the last check: the load is aborted   *)
(* exactly when the report is not empty.                                   *)

\* Every name of the reaction's two sides is a species of the mixture.
SidesResolved(rxn) ==
    \A nm \in Range(rxn.reactants) \cup Range(rxn.products) : InMixture(nm)

C6_ValidationReportsEveryProblem ==
    JustValidated =>
        /\ (status = "aborted") <=> (report # {})
        /\ \A r \in 1..m_num_rxns :
              /\ \A nm \in Unresolved(m_reactions[r]) :
                    [kind |-> "species", rxn |-> r, name |-> nm] \in report
              /\ \A j \in 1..m_num_rxns :
                    (r < j /\ SameUnitVector(NetStoich(m_reactions[r]),
                                             NetStoich(m_reactions[j])))
                    => [kind |-> "duplicate", rxn |-> r, other |-> j] \in report
              /\ \A e \in 1..nElements :
                    (SidesResolved(m_reactions[r]) /\ Residual(m_reactions[r], e) # 0)
                    => [kind |-> "conservation", rxn |-> r,
                        element |-> elementNames[e]] \in report

\* The species check failed on the first reaction and the later checks
\* still reported the second reaction.
C6_Witness ==
    /\ JustValidated
    /\ status = "aborted"
    /\ m_num_rxns = 2
    /\ \E nm \in Unresolved(m_reactions[1]) :
          [kind |-> "species", rxn |-> 1, name |-> nm] \in report
    /\ Unresolved(m_reactions[2]) = {}
    /\ \E e \in 1..nElements :
          [kind |-> "conservation", rxn |-> 2, element |-> elementNames[e]] \in report

----------------------------------------------------------------------------
(* C7: after any sequence of addReaction calls every species index stored  *)
(* in the reactant, reversible-product, irreversible-product and           *)
(* third-body incidence sets lies in [0, nSpecies).                        *)

C7_StoredIndicesInRange ==
    /\ ~ BadIndex(m_reactants)
    /\ ~ BadIndex(m_rev_prods)
    /\ ~ BadIndex(m_irr_prods)
    /\ ~ BadThirdbodyIndex(m_thirdbodies)

----------------------------------------------------------------------------
(* C8: the vector backwardRateCoefficients(T) returns is, reaction by      *)
(* reaction, the forward rate coefficient divided by the equilibrium       *)
(* constant of the cached pair the call leaves behind (kb * keq = kf), and *)
(* it is consistent with the vector a call of forwardRateCoefficients or   *)
(* of equilibriumConstants with the same T returned just before it.        *)

C8_Step ==
    (status' = "sealed" /\ ret'.op = "kb")
    => /\ Len(ret'.val) = m_num_rxns'
       /\ \A r \in 1..m_num_rxns' :
             /\ ret'.val[r] * Exp(m_lnkeq'[r]) = Exp(m_lnkf'[r]) * Exp(0)
             /\ (Sealed /\ ret.op = "kf" /\ ret.T = ret'.T)
                => ret'.val[r] * Exp(m_lnkeq'[r]) = ret.val[r] * Exp(0)
             /\ (Sealed /\ ret.op = "keq" /\ ret.T = ret'.T)
                => ret'.val[r] * ret.val[r] = Exp(m_lnkf'[r]) * Exp(0)

C8_BackwardIsForwardOverEquilibrium == [][C8_Step]_vars

\* backwardRateCoefficients returned after an update that left a reversible
\* reaction with a forward coefficient and an equilibrium constant other
\* than 1.
C8_Witness ==
    /\ Sealed
    /\ ret.op = "kb"
    /\ ret.invoked
    /\ \E r \in 1..m_num_rxns :
          /\ m_reactions[r].reversible
          /\ m_lnkf[r] # 0
          /\ m_lnkeq[r] # 0
          /\ ret.val[r] # Exp(m_lnkf[r])

----------------------------------------------------------------------------
(* C9: forwardRatesOfProgress(T, conc)[r] is kf[r] times the product over  *)
(* r's reactants, with multiplicity, of the concentration of the species,  *)
(* times the third-body factor (the sum over the species of efficiency     *)
(* times concentration, efficiency 1 where none is listed) when r is a     *)
(* third-body reaction and times 1 otherwise; the product concentrations   *)
(* do not enter.                                                           *)

\* The concentration of the named species of the mixture.
ConcOf(conc, name) == conc[CHOOSE k \in 1..nSpecies : speciesNames[k] = name]

\* The efficiency the reaction lists for the species, 1 if it lists none.
Efficiency(rxn, name) ==
    IF \E k \in 1..Len(rxn.efficiencies) : rxn.efficiencies[k][1] = name
    THEN rxn.efficiencies[CHOOSE k \in 1..Len(rxn.efficiencies) :
                             rxn.efficiencies[k][1] = name][2]
    ELSE 1

\* Every name the forward rate of progress depends on is a species.
ForwardResolved(rxn) ==
    /\ \A nm \in Range(rxn.reactants) : InMixture(nm)
    /\ rxn.thirdbody =>
          \A k \in 1..Len(rxn.efficiencies) : InMixture(rxn.efficiencies[k][1])

MassAction(rxn, conc) ==
    ProdSeq([k \in 1..Len(rxn.reactants) |-> ConcOf(conc, rxn.reactants[k])])
    * (IF rxn.thirdbody
       THEN SumSeq([k \in 1..nSpecies |->
                       Efficiency(rxn, speciesNames[k]) * conc[k]])
       ELSE 1)

C9_ForwardRateIsMassAction ==
    (Sealed /\ ret.op = "ropf")
    => /\ Len(ret.val) = m_num_rxns
       /\ \A r \in 1..m_num_rxns :
             ForwardResolved(m_reactions[r])
             => ret.val[r] = Exp(m_lnkf[r]) * MassAction(m_reactions[r], ret.conc)

\* 2A + B => C alone at [A] = 2, [B] = 3 gave kf * 12.
C9_Witness ==
    /\ Sealed
    /\ ret.op = "ropf"
    /\ m_num_rxns = 1
    /\ m_reactions[1].reactants = << "A", "A", "B" >>
    /\ ~ m_reactions[1].thirdbody
    /\ ret.conc[1] = 2
    /\ ret.conc[2] = 3
    /\ m_lnkf[1] # 0
    /\ ret.val[1] = Exp(m_lnkf[1]) * 12

----------------------------------------------------------------------------
(* C10: for a sealed, validated mechanism the production rates             *)
(* netProductionRates returns create no mass. As stated, the sum over the  *)
(* species of netProductionRate(species) * Mw(species) is zero at every    *)
(* evaluated (T, conc).                                                    *)

C10_RatesTimesMwSumToZero ==
    (Sealed /\ validated /\ ret.op = "wdot")
    => SumSeq([k \in 1..nSpecies |-> ret.val[k] * speciesMw(k - 1)]) = 0

\* C10, amended: the rates netProductionRates returns are on a mass basis,
\* each already multiplied by Mw(species), and it is their plain sum over
\* the species that is zero at every evaluated (T, conc).
C10_MassRatesSumToZero ==
    (Sealed /\ validated /\ ret.op = "wdot")
    => /\ Len(ret.val) = nSpecies
       /\ SumSeq(ret.val) = 0

\* A validated mechanism returned production rates that are not all zero.
C10_Witness ==
    /\ Sealed
    /\ validated
    /\ ret.op = "wdot"
    /\ \E k \in 1..nSpecies : ret.val[k] # 0

----------------------------------------------------------------------------
(* C11: for any stoichiometry manager, species vector s and reaction       *)
(* vector r, decrReactions(s, r) followed by incrReactions(s, r) restores  *)
(* r to its original values, and decrSpecies followed by incrSpecies with  *)
(* the same reaction vector restores the species vector.                   *)

RoundTrips == {"decrIncrReactions", "decrIncrSpecies"}

Incidence(mgr, rxn) ==
    CASE mgr = "m_reactants" -> rxn.reactants
      [] mgr = "m_rev_prods" -> IF rxn.reversible THEN rxn.products ELSE << >>
      [] mgr = "m_irr_prods" -> IF rxn.reversible THEN << >> ELSE rxn.products

\* Every sum and difference of the round trip is an integer that a double
\* holds exactly.
ExactRoundTrip ==
    IF ret.op = "decrIncrReactions"
    THEN \A j \in 1..Len(ret.arg) :
           Abs(ret.arg[j])
           + SumSeq([k \in 1..Len(Incidence(ret.mgr, m_reactions[j])) |->
                       Abs(ConcOf(ret.src, Incidence(ret.mgr, m_reactions[j])[k]))])
           < 2 ^ MantissaBits
    ELSE \A k \in 1..nSpecies :
           Abs(ret.arg[k])
           + SumSeq([j \in 1..Len(ret.src) |->
                       Count(Incidence(ret.mgr, m_reactions[j]), speciesNames[k])
                       * Abs(ret.src[j])])
           < 2 ^ MantissaBits

----------------------------------------------------------------------------
(* C12: the reaction list only grows. After any sequence of addReaction    *)
(* calls m_num_rxns is the length of the list, the k-th added reaction     *)
(* stays at index k-1 unchanged, every manager holds it under that index,  *)
(* and no step removes or changes a reaction or a registration.            *)

IsPrefix(a, b) == Len(a) <= Len(b) /\ SubSeq(b, 1, Len(a)) = a

\* The 0-based positions of the TRUE entries of a sequence, in order.
RECURSIVE Positions(_)
Positions(flags) ==
    IF flags = << >> THEN << >>
    ELSE LET front == SubSeq(flags, 1, Len(flags) - 1)
         IN  IF flags[Len(flags)]
             THEN Append(Positions(front), Len(flags) - 1)
             ELSE Positions(front)

AllOf(rxns) == [k \in 1..Len(rxns) |-> TRUE]

ReversibleOf(rxns) == [k \in 1..Len(rxns) |-> rxns[k].reversible]

IrreversibleOf(rxns) == [k \in 1..Len(rxns) |-> ~ rxns[k].reversible]

ThirdbodyOf(rxns) == [k \in 1..Len(rxns) |-> rxns[k].thirdbody]

RegisteredIndices(mgr) == [e \in 1..Len(mgr) |-> mgr[e].rxn]

C12_Step ==
    /\ m_num_rxns' = Len(m_reactions')
    /\ IsPrefix(m_reactions, m_reactions')
    /\ IsPrefix(m_reactants, m_reactants')
    /\ IsPrefix(m_rev_prods, m_rev_prods')
    /\ IsPrefix(m_irr_prods, m_irr_prods')
    /\ IsPrefix(m_thirdbodies, m_thirdbodies')
    /\ IsPrefix(m_rates, m_rates')
    /\ RegisteredIndices(m_reactants') = Positions(AllOf(m_reactions'))
    /\ RegisteredIndices(m_rates') = Positions(AllOf(m_reactions'))
    /\ RegisteredIndices(m_rev_prods') = Positions(ReversibleOf(m_reactions'))
    /\ RegisteredIndices(m_irr_prods') = Positions(IrreversibleOf(m_reactions'))
    /\ RegisteredIndices(m_thirdbodies') = Positions(ThirdbodyOf(m_reactions'))

C12_ReactionListOnlyGrows == [][C12_Step]_vars

\* A reversible third-body reaction was added second, after the engine had
\* been sealed, and is registered under index 1 as the first entry of the
\* reversible-product and third-body managers.
C12_Witness ==
    /\ m_num_rxns = 2
    /\ status = "sealed"
    /\ Len(m_lnkf) = 1
    /\ ~ m_reactions[1].reversible
    /\ m_reactions[2].reversible
    /\ m_reactions[2].thirdbody
    /\ RegisteredIndices(m_rev_prods) = << 1 >>
    /\ RegisteredIndices(m_thirdbodies) = << 1 >>

----------------------------------------------------------------------------
(* C13: all mutation performed by the evaluation API                       *)
(* (equilibriumConstants, forward/backwardRateCoefficients, forward/       *)
(* backward/netRatesOfProgress, netProductionRates, jacobianRho) is        *)
(* confined to the cached rate state (T_last, lnkf, lnkeq) and happens     *)
(* only inside updateT; the reaction list, the incidence sets, dnu and     *)
(* every other engine member are left unchanged.                           *)

\* A step in which a method of the evaluation API ran and returned.
EvaluationStep ==
    /\ Sealed
    /\ status' = "sealed"
    /\ ret'.op \in EvaluationOps

C13_Step ==
    EvaluationStep
    => /\ UNCHANGED << mechVars, m_dnu, workVars >>
       /\ (<< m_T_last, m_lnkf, m_lnkeq >>' # << m_T_last, m_lnkf, m_lnkeq >>)
          => ret'.invoked

C13_MutationConfinedToCache == [][C13_Step]_vars

\* C13, amended: the evaluation API also writes the engine's scratch work
\* arrays: mp_g inside updateT, m_ropf and m_ropb in netRatesOfProgress and
\* m_rop in netProductionRates. The cached rate state is written only by
\* updateT's recomputation, and the reaction list, the incidence sets, dnu
\* and every other engine member are left unchanged.
C13_AmendedStep ==
    EvaluationStep
    => /\ UNCHANGED << mechVars, m_dnu >>
       /\ (<< m_T_last, m_lnkf, m_lnkeq, mp_g >>' # << m_T_last, m_lnkf, m_lnkeq, mp_g >>)
          => ret'.invoked
       /\ (<< m_ropf, m_ropb >>' # << m_ropf, m_ropb >>) => ret'.op \in {"rop", "wdot"}
       /\ (m_rop' # m_rop) => ret'.op = "wdot"

C13_MutationConfinedToCacheAndWorkArrays == [][C13_AmendedStep]_vars

\* netProductionRates returned after recomputing the cache and left
\* non-trivial rates in every work array.
C13_Witness ==
    /\ Sealed
    /\ ret.op = "wdot"
    /\ ret.invoked
    /\ m_lnkf # Fill(m_num_rxns, 0)
    /\ m_ropf # Fill(m_num_rxns, 0)
    /\ m_ropb # Fill(m_num_rxns, 0)
    /\ m_rop # Fill(m_num_rxns, 0)
    /\ mp_g # Fill(nSpecies, 0)

----------------------------------------------------------------------------
(* C14: when a mechanism is loaded the rate-law unit configuration is      *)
(* applied exactly once and before any reaction is added, never after a    *)
(* reaction and never twice, so the same units apply to every reaction of  *)
(* the mechanism wherever the arrhenius_units element stands.              *)

\* The reaction elements of the document read so far, in order.
ReactionElementsRead ==
    LET n == IF pc = Returned THEN Len(doc.elements) ELSE pc - 1
    IN  SelectSeq(SubSeq(doc.elements, 1, n), LAMBDA e : e.tag = "reaction")

\* The units under which the k-th reaction's rate law was parsed.
UnitsOf(k) == m_reactions[k].rateLaw.lnA - ReactionElementsRead[k].rxn.rateLaw.lnA

C14_UnitsAppliedOnceBeforeReactions ==
    (doc.root = "mechanism")
    => /\ Len(unitsLog) <= 1
       /\ \A i \in 1..Len(unitsLog) : unitsLog[i].at = 0
       /\ \A j, k \in 1..m_num_rxns : UnitsOf(j) = UnitsOf(k)
       /\ (/\ pc = Returned
           /\ \E i \in 1..Len(doc.elements) : doc.elements[i].tag = "arrhenius_units")
          => \A k \in 1..m_num_rxns :
                \E i \in 1..Len(doc.elements) :
                    /\ doc.elements[i].tag = "arrhenius_units"
                    /\ UnitsOf(k) = doc.elements[i].units

----------------------------------------------------------------------------
(* C15: T_last is initialized at construction to a sentinel that matches   *)
(* no physical temperature, so the first updateT(T) after sealing, for any *)
(* T > 0, recomputes and never returns the unfilled cache vectors.         *)

\* The first call that reaches updateT after closeReactions.
FirstUpdateAfterSeal ==
    /\ Sealed
    /\ ret.op = "closeReactions"
    /\ status' = "sealed"
    /\ ret'.op \in CoefficientOps
    /\ ret'.T > 0

C15_Step ==
    /\ (pc = Returned /\ m_num_rxns = 0 /\ status = "open")
       => \A T \in Temps : T > 0 => ~ Near(T, m_T_last)
    /\ FirstUpdateAfterSeal => (ret'.invoked /\ m_T_last' = ret'.T)

C15_FirstUpdateRecomputes == [][C15_Step]_vars

----------------------------------------------------------------------------
(* C16: multiplyThirdbodies multiplies the entry of each third-body        *)
(* reaction by the sum over all species of efficiency * concentration, a   *)
(* species absent from the reaction's list counting with efficiency 1, and *)
(* leaves the entry of every other reaction unchanged.                     *)

\* The factor the claim assigns to a reaction.
ThirdbodyScale(rxn, conc) ==
    IF rxn.thirdbody
    THEN SumSeq([k \in 1..nSpecies |-> Efficiency(rxn, speciesNames[k]) * conc[k]])
    ELSE 1

\* The entry handed to multiplyThirdbodies: the rate coefficient times the
\* concentrations of the species the manager of that direction holds.
Unscaled(op, r) ==
    LET rxn == m_reactions[r]
        mgr == IF op = "ropf" THEN "m_reactants" ELSE "m_rev_prods"
        k   == IF op = "ropf" THEN Exp(m_lnkf[r]) ELSE Exp(m_lnkf[r] - m_lnkeq[r])
    IN  k * ProdSeq([i \in 1..Len(Incidence(mgr, rxn)) |->
                       ConcOf(ret.conc, Incidence(mgr, rxn)[i])])

C16_ThirdbodyFactor ==
    (Sealed /\ ret.op \in {"ropf", "ropb"})
    => \A r \in 1..m_num_rxns :
          (SidesResolved(m_reactions[r]) /\ ForwardResolved(m_reactions[r]))
          => ret.val[r] = Unscaled(ret.op, r) * ThirdbodyScale(m_reactions[r], ret.conc)

\* backwardRatesOfProgress scaled a third-body reaction by a factor in
\* which the listed species counts twice, and left the entry of a reaction
\* without third body as it was.
C16_Witness ==
    /\ Sealed
    /\ ret.op = "ropb"
    /\ m_num_rxns = 2
    /\ ~ m_reactions[1].thirdbody
    /\ ret.val[1] = Unscaled("ropb", 1)
    /\ ret.val[1] # 0
    /\ m_reactions[2].thirdbody
    /\ Efficiency(m_reactions[2], "A") = 2
    /\ ret.conc[1] # 0
    /\ Unscaled("ropb", 2) # 0
    /\ ret.val[2] = Unscaled("ropb", 2) * (SumSeq(ret.conc) + ret.conc[1])

----------------------------------------------------------------------------
(* C17: after closeReactions, with or without validation, dnu[r] is the    *)
(* sum of r's product coefficients minus the sum of its reactant           *)
(* coefficients for every reaction r, reversible or not, and no later      *)
(* operation changes dnu.                                                  *)

C17_Step ==
    /\ status' = "sealed"
       => /\ Len(m_dnu') = m_num_rxns'
          /\ \A r \in 1..m_num_rxns' :
                m_dnu'[r] = Len(m_reactions'[r].products) - Len(m_reactions'[r].reactants)
    /\ (Sealed /\ status' = "sealed") => m_dnu' = m_dnu

C17_DnuIsNetMoleChange == [][C17_Step]_vars

----------------------------------------------------------------------------
(* C18: addReaction registers the reaction's reactants in the reactant     *)
(* manager, its products in exactly one product manager (the reversible    *)
(* one iff the reaction is reversible), its efficiencies in the third-body *)
(* manager iff it is flagged third-body, and its rate law and Jacobian     *)
(* structure always, all under the same reaction index, which is then      *)
(* incremented by exactly one.                                             *)

\* A list of stored indices stands for a list of names: one index per
\* occurrence, in order, and the index of a species is its own.
IndicesOf(sps, names) ==
    /\ Len(sps) = Len(names)
    /\ \A k \in 1..Len(names) :
          InMixture(names[k]) => (InRange(speciesNames, sps[k])
                                  /\ At(speciesNames, sps[k]) = names[k])

\* m2 is m with one entry more, for reaction index n and the given names.
RegistersSpecies(m, m2, n, names) ==
    /\ Len(m2) = Len(m) + 1
    /\ SubSeq(m2, 1, Len(m)) = m
    /\ m2[Len(m2)].rxn = n
    /\ IndicesOf(m2[Len(m2)].sps, names)

\* m2 is m with one entry more, for reaction index n and the given
\* (name, efficiency) pairs.
RegistersEfficiencies(m, m2, n, effs) ==
    /\ Len(m2) = Len(m) + 1
    /\ SubSeq(m2, 1, Len(m)) = m
    /\ m2[Len(m2)].rxn = n
    /\ Len(m2[Len(m2)].effs) = Len(effs)
    /\ \A k \in 1..Len(effs) :
          /\ m2[Len(m2)].effs[k][2] = effs[k][2]
          /\ IndicesOf(<< m2[Len(m2)].effs[k][1] >>, << effs[k][1] >>)

C18_Step ==
    (Len(m_reactions') # Len(m_reactions))
    => LET n   == m_num_rxns
           rxn == m_reactions'[Len(m_reactions')]
       IN  /\ m_reactions' = Append(m_reactions, rxn)
           /\ RegistersSpecies(m_reactants, m_reactants', n, rxn.reactants)
           /\ IF rxn.reversible
              THEN /\ RegistersSpecies(m_rev_prods, m_rev_prods', n, rxn.products)
                   /\ m_irr_prods' = m_irr_prods
              ELSE /\ RegistersSpecies(m_irr_prods, m_irr_prods', n, rxn.products)
                   /\ m_rev_prods' = m_rev_prods
           /\ IF rxn.thirdbody
              THEN RegistersEfficiencies(m_thirdbodies, m_thirdbodies', n, rxn.efficiencies)
              ELSE m_thirdbodies' = m_thirdbodies
           /\ m_rates' = Append(m_rates, [rxn |-> n, law |-> rxn.rateLaw])
           /\ m_jacobian' = Append(m_jacobian, rxn)
           /\ Len(m_jacobian') = n + 1
           /\ m_num_rxns' = n + 1

C18_AddReactionRegistersEverywhere == [][C18_Step]_vars

\* A reversible third-body reaction was added second, after an
\* irreversible one with a repeated reactant.
C18_Witness ==
    /\ ret.op = "addReaction"
    /\ m_num_rxns = 2
    /\ m_reactions[1].formula = "2A+B=>C"
    /\ Len(m_reactants[1].sps) = 3
    /\ m_reactions[2].formula = "C+M=A+D+M"
    /\ Len(m_rev_prods) = 1 /\ m_rev_prods[1].rxn = 1
    /\ Len(m_irr_prods) = 1 /\ m_irr_prods[1].rxn = 0
    /\ Len(m_thirdbodies) = 1 /\ m_thirdbodies[1].rxn = 1
    /\ Len(m_rates) = 2 /\ Len(m_jacobian) = 2

----------------------------------------------------------------------------
(* C19: when updateT recomputes, lnkeq[r] = dnu[r] * ln(P_ref / (R T))      *)
(* + the sum over r's reactants of multiplicity * g/RT - the sum over r's  *)
(* products of multiplicity * g/RT, and T_last is set to T only after both *)
(* cached vectors have been rewritten.                                     *)

\* g/RT of the named species in the collaborator's current state.
GOf(name) ==
    speciesGOverRT(thermoState)[CHOOSE k \in 1..nSpecies : speciesNames[k] = name]

\* The sum of g/RT over the occurrences of the names.
GSum(names) == SumSeq([k \in 1..Len(names) |-> GOf(names[k])])

\* A step in which a call reached updateT and updateT did not return early,
\* or in which T_last changed.
RecomputeStep ==
    /\ Sealed
    /\ status' = "sealed"
    /\ thermoState' = thermoState
    /\ (ret' # ret /\ ret'.invoked) \/ m_T_last' # m_T_last

C19_Step ==
    RecomputeStep
    => /\ ret'.invoked
       /\ m_T_last' = ret'.T
       /\ \A r \in 1..m_num_rxns :
             /\ m_lnkf'[r] = m_reactions[r].rateLaw.lnA + m_reactions[r].rateLaw.slope * ret'.T
             /\ SidesResolved(m_reactions[r])
                => m_lnkeq'[r] = m_dnu[r] * LnPrefOverRT(ret'.T)
                                 + GSum(m_reactions[r].reactants)
                                 - GSum(m_reactions[r].products)

C19_RecomputeFillsLnKeq == [][C19_Step]_vars

\* equilibriumConstants(3) recomputed for C+M=A+D+M in a state where only
\* the reactant C has a non-zero g/RT: lnkeq = 1 * (1 - 3) + 1 - 0.
C19_Witness ==
    /\ Sealed
    /\ ret.op = "keq"
    /\ ret.invoked
    /\ ret.T = 3
    /\ m_T_last = 3
    /\ m_num_rxns = 1
    /\ m_reactions[1].formula = "C+M=A+D+M"
    /\ m_dnu = << 1 >>
    /\ GSum(m_reactions[1].reactants) = 1
    /\ GSum(m_reactions[1].products) = 0
    /\ m_lnkeq = << 0 - 1 >>

----------------------------------------------------------------------------
(* C20: netProductionRates[s] = Mw(s) * the sum over the reactions r of    *)
(* (product multiplicity of s in r - reactant multiplicity of s in r) *    *)
(* netRateOfProgress[r]; the output buffer is reset to zero first, so      *)
(* nothing of a previous call or of the caller's buffer accumulates.       *)

\* The right-hand side for species k (1-based), from the reaction records
\* and the net rates of progress the call computed.
MassProduction(k) ==
    speciesMw(k - 1)
    * SumSeq([r \in 1..m_num_rxns |-> NetStoich(m_reactions[r])[k] * m_rop[r]])

C20_ProductionIsStoichTimesNetRate ==
    (Sealed /\ ret.op = "wdot")
    => /\ Len(ret.val) = nSpecies
       /\ Len(m_rop) = m_num_rxns
       /\ \A k \in 1..nSpecies : ret.val[k] = MassProduction(k)

\* Two reactions that both consume A ran at non-zero net rates.
C20_Witness ==
    /\ Sealed
    /\ ret.op = "wdot"
    /\ m_num_rxns = 2
    /\ m_reactions[1].formula = "A+B=>C+D"
    /\ m_reactions[2].formula = "2A+B=>C"
    /\ m_rop[1] # 0
    /\ m_rop[2] # 0
    /\ ret.val[1] = speciesMw(0) * (0 - m_rop[1] - 2 * m_rop[2])
    /\ ret.val[3] = speciesMw(2) * (m_rop[1] + m_rop[2])

----------------------------------------------------------------------------
(* C21: the constructor with a mechanism name other than "none" either     *)
(* aborts or returns with the mechanism sealed by closeReactions(true)     *)
(* after every reaction element was added in document order; if the root   *)
(* is not a 'mechanism' element it aborts before any reaction is added;    *)
(* with "none" it returns with zero reactions and the mechanism unsealed.  *)

\* The reactions registered are those of the document's reaction elements,
\* in document order.
AddedInDocumentOrder ==
    /\ m_num_rxns = Len(ReactionElementsRead)
    /\ Len(m_reactions) = m_num_rxns
    /\ \A k \in 1..m_num_rxns :
          m_reactions[k].formula = ReactionElementsRead[k].rxn.formula

C21_ConstructorSealsOrAborts ==
    (pc = Returned)
    => CASE doc = NoDocument ->
               m_num_rxns = 0 /\ status = "open"
         [] doc # NoDocument /\ doc.root # "mechanism" ->
               status = "aborted" /\ m_num_rxns = 0
         [] OTHER ->
               \/ status = "aborted"
               \/ /\ status = "sealed"
                  /\ validated
                  /\ ret.op = "closeReactions"
                  /\ AddedInDocumentOrder

----------------------------------------------------------------------------
(* C22: in every state reachable after closeReactions by any sequence of   *)
(* public operations, further addReaction and closeReactions calls         *)
(* included, lnkf, lnkeq, dnu and the rate-of-progress work vectors all    *)
(* have the length m_num_rxns, so that no evaluation method indexes a      *)
(* cache vector outside its bounds.                                        *)

C22_CacheLengthsAreReactionCount ==
    Sealed
    => /\ Len(m_lnkf) = m_num_rxns
       /\ Len(m_lnkeq) = m_num_rxns
       /\ Len(m_dnu) = m_num_rxns
       /\ Len(m_ropf) = m_num_rxns
       /\ Len(m_ropb) = m_num_rxns
       /\ Len(m_rop) = m_num_rxns

----------------------------------------------------------------------------
(* C23: after any interleaving of thermodynamic-state changes on the       *)
(* collaborator and evaluation calls, equilibriumConstants(T) and          *)
(* backwardRateCoefficients(T) return values computed from the             *)
(* collaborator's species g/RT as of that call; a log equilibrium constant *)
(* cached under an earlier collaborator state is never returned just       *)
(* because T is within 1e-6 of T_last.                                     *)

\* ln Keq of reaction r at temperature T from the collaborator's g/RT now.
LnKeqNow(r, T) ==
    m_dnu[r] * LnPrefOverRT(T)
    + GSum(m_reactions[r].reactants) - GSum(m_reactions[r].products)

\* A call of equilibriumConstants or backwardRateCoefficients that follows
\* a call in which the cache was recomputed; the collaborator's state may
\* have changed in between.
EquilibriumCallOnFilledCache ==
    /\ Sealed
    /\ status' = "sealed"
    /\ thermoState' = thermoState
    /\ ret.invoked
    /\ ret' # ret
    /\ ret'.op \in {"keq", "kb"}

C23_Step ==
    EquilibriumCallOnFilledCache
    => \A r \in 1..m_num_rxns :
          SidesResolved(m_reactions[r])
          => ret'.val[r] = IF ret'.op = "keq"
                           THEN Exp(LnKeqNow(r, m_T_last'))
                           ELSE Exp(m_lnkf'[r] - LnKeqNow(r, m_T_last'))

C23_EquilibriumUsesCurrentState == [][C23_Step]_vars

----------------------------------------------------------------------------
(* C24: after every updateT(T) on a sealed engine, |T - T_last| < 1e-6     *)
(* holds on return: for any sequence of requested temperatures, a slow     *)
(* drift in steps smaller than 1e-6 included, the cached rate coefficients *)
(* are never more than 1e-6 away in temperature from the temperature just  *)
(* requested.                                                              *)

----------------------------------------------------------------------------
(* C25: closeReactions(true) on a mechanism with zero reactions            *)
(* terminates, reports no problem and seals the engine: the bound          *)
(* m_num_rxns - 1 of the duplicate-check loop does not wrap around to a    *)
(* huge unsigned value and no reaction at an index >= m_num_rxns is read.  *)

\* closeReactions ran on the open engine without reactions, and it was not
\* closeReactions(false), which seals without validating.
ClosesEmptyMechanism ==
    /\ m_num_rxns = 0
    /\ status = "open"
    /\ status' # status
    /\ ~ (status' = "sealed" /\ ~ validated')

C25_Step ==
    ClosesEmptyMechanism
    => /\ duplicateLoopBound <= m_num_rxns
       /\ ~ duplicateCheckReadsOutOfBounds
       /\ status' = "sealed"
       /\ report' = {}

C25_EmptyMechanismSeals == [][C25_Step]_vars

----------------------------------------------------------------------------
(* C26: after loadSpeciesFromList succeeds, every requested species name   *)
(* appears exactly once in the species list (duplicates in the request     *)
(* collapse), speciesIndex(name of species i) = i for every i, and 'e-',   *)
(* if among the species, is at index 0; if a requested name is missing     *)
(* from the database the load aborts instead.                              *)

C26_SpeciesListIsRequestOnce ==
    /\ (thermoStatus = "loaded")
       => /\ \A nm \in Range(species_names) : Count(m_species, nm) = 1
          /\ \A i \in 0..(Len(m_species) - 1) :
                loadedSpeciesIndex(At(m_species, i)) = i
          /\ ("e-" \in Range(m_species)) => At(m_species, 0) = "e-"
          /\ m_has_electrons <=> ("e-" \in Range(m_species))
    /\ (thermoStatus # "new")
       => ((thermoStatus = "aborted")
           <=> \E nm \in Range(species_names) : nm \notin Range(species_doc))

\* A list naming N2 twice and the electron, loaded from a database that
\* holds the electron second: two species, the electron moved to the front.
C26_Witness ==
    /\ thermoStatus = "loaded"
    /\ species_names = << "N2", "e-", "N2" >>
    /\ species_doc = << "N2", "e-", "N+" >>
    /\ m_species = << "e-", "N2" >>
    /\ loadedSpeciesIndex("N2") = 1

----------------------------------------------------------------------------
(* C27: for a LookupTable with at least two rows and any lookup index (at  *)
(* or below minIndex, inside the range, at or above maxIndex), lookup      *)
(* reads only two adjacent rows lower_row and upper_row = lower_row + 1    *)
(* with 0 <= lower_row and upper_row <= nIndices - 1, both in the          *)
(* constant-spacing (hash) branch and in the binary-search branch.         *)

\* lookup has run on a table of at least two rows.
LookedUp ==
    /\ tableStatus \in {"loaded", "undefined"}
    /\ m_num_indices >= 2
    /\ index # NoIndex

C27_LookupReadsAdjacentRows ==
    LookedUp
    => /\ 0 <= lower_row
       /\ upper_row = lower_row + 1
       /\ upper_row <= m_num_indices - 1
       /\ tableStatus = "loaded"

====
